---- MODULE Spec2Model ----
(***************************************************************************)
(* The semantic memory store of Adam_AI: the conversation log              *)
(* (MemoryManager.memory, memory.json), the summary store                   *)
(* (MemoryManager.embeddings_data, embeddings.json), the archival cycle     *)
(* (summarizer.summarize_memory), Append (MemoryManager.save_interaction)   *)
(* and similarity search (MemoryManager.search_embeddings).                 *)
(*                                                                         *)
(* Spec     the GUI deployment: the archival cycle and save_interaction run *)
(*          on separate threads (gui.py starts one thread per request) and  *)
(*          their statements interleave.                                    *)
(* SeqSpec  the terminal deployment: the same handlers run one at a time    *)
(*          from one loop (bot.py _interaction_loop, ai_core); the clock    *)
(*          and a crash still happen at any point.                          *)
(* SearchSpec  the searches of both memory managers over a loaded summary   *)
(*          store and knowledge store.                                      *)
(* StoreSpec  the maintenance calls of MemoryManager (save, prune, clear,    *)
(*          export, import, insert, reload), each a whole call, with the    *)
(*          stores as the call found them.                                  *)
(* ManualSpec  the terminal loop with manual_summarize_range among its      *)
(*          commands, in a process that is never killed.                    *)
(* FunctionSpec  the pure functions applied to bounded inputs:             *)
(*          _classify_query_intent, _cosine_similarity, embed_text and the *)
(*          two endpoint calls, _calculate_relevance_score.                *)
(* AutoSpec  AICore: generate_response with _check_auto_summarize, the     *)
(*          manual and the forced cycle, interaction_count and             *)
(*          last_summarization.                                            *)
(* CycleSpec  the archival cycle on its thread beside save_interaction, in *)
(*          a process that is never killed, the thread being scheduled.    *)
(* ReloadSpec  _load_base_memory statement by statement beside a search of *)
(*          the knowledge store on another thread.                         *)
(* ChunkSpec  MarkdownChunker: chunk_markdown and _get_section_context on  *)
(*          documents of a few lines.                                      *)
(*                                                                         *)
(* A date is a day number.  A file write is one step; a crash falls between *)
(* two steps.                                                               *)
(***************************************************************************)
EXTENDS Integers, Sequences, FiniteSets, TLC

\* ---------------------------------------------------------------- bounds
PastDays == 2          \* days already in memory.json when the store is built
MaxPerDay == 2         \* interactions per such day (2 entries each)
MaxEvents == 2         \* midnights, save_interaction calls and process
                       \* deaths during the run, together
MaxRecords == 2        \* records in the knowledge store of a search
MaxK == 3              \* the largest k a search is called with
MaxWords == 2          \* words in a text that is classified
MaxDim == 2            \* numbers in a vector whose similarity is computed
MaxInteractions == 4   \* interactions AICore answers in a run
auto_summarize_threshold == 2  \* config.auto_summarize_threshold (default 100)
MaxAnswers == 4        \* requests an endpoint has an answer in store for
MaxLines == 5          \* lines of a markdown document

\* ------------------------------------------------------ program constants
MIN_DAY_ENTRIES == 4   \* _group_entries_by_day: len(entries) >= 4
MIN_PAST_ENTRIES == 2  \* summarize_memory: len(past_day_entries) < 2
max_retries == 3       \* OllamaEmbedder.__init__: self.max_retries = 3

\* Python's None, and a value that is not None.
None == [some |-> FALSE]
Some(v) == [some |-> TRUE, value |-> v]

VARIABLES
    today,                 \* datetime.now(timezone.utc).date()
    memory,                \* self.memory
    embeddings_data,       \* self.embeddings_data
    memory_file,           \* personality/memory/memory.json
    embeddings_file,       \* personality/memory/embeddings.json
    apc,                   \* position of the thread running summarize_memory
    daily_conversations,   \* summarize_memory: the days still to process
    summary,               \* summarize_memory: the text generated for the day
    summaries_created,     \* summarize_memory
    entries_to_remove,     \* summarize_memory
    current_day_entries,   \* remove_summarized_past_day_entries: its local
    result,                \* the value summarize_memory returned
    spc,                   \* position of the thread running save_interaction
    timestamp,             \* save_interaction: its local
    interactions,          \* save_interaction calls started
    events,                \* midnights, calls and process deaths so far
    cycle,                 \* history of the running cycle (not program state)
    base_embeddings,       \* self.base_embeddings
    query,                 \* search: the query text, a sequence of characters
    k,                     \* search: the number of results asked for
    include_base,          \* search_embeddings: include_base
    query_embedding,       \* search: what _get_ollama_embedding returned
    search_call,           \* the search function that has returned
    search_result,         \* the list it returned
    base_files,            \* the items of the knowledge-store files
    export_file,           \* the file export_memory wrote
    call,                  \* the store call that has returned
    args,                  \* its arguments and what its environment did
    returned,              \* the value it returned
    before,                \* the stores when it was called (not program state)
    interaction_count,     \* AICore.interaction_count
    last_summarization,    \* AICore.last_summarization
    cpc,                   \* position of AICore in generate_response or a command
    rpc,                   \* position of the thread running reload_base_memory
    embeddings_to_load     \* _load_base_memory: the items still to validate

vars == <<today, memory, embeddings_data, memory_file, embeddings_file, apc,
          daily_conversations, summary, summaries_created, entries_to_remove,
          current_day_entries, result, spc, timestamp, interactions,
          events, cycle, base_embeddings, query, k, include_base,
          query_embedding, search_call, search_result, base_files,
          export_file, call, args, returned, before, interaction_count,
          last_summarization, cpc, rpc, embeddings_to_load>>

callVars == <<base_files, export_file, call, args, returned, before>>

coreVars == <<interaction_count, last_summarization, cpc>>

reloadVars == <<rpc, embeddings_to_load>>

searchVars == <<base_embeddings, query, k, include_base, query_embedding,
                search_call, search_result>>

archLocals == <<daily_conversations, summary, summaries_created,
                entries_to_remove, current_day_entries>>

\* -------------------------------------------------------------- timestamps
\* _format_timestamp: strftime("%A, %B %d, %Y at %I:%M %p UTC") of a datetime.
FormatTimestamp(day) == <<"%A, %B %d, %Y at %I:%M %p UTC", day>>

\* The formats _parse_human_datetime tries before falling back to now().
ParseFormats == {"%A, %B %d, %Y at %I:%M %p UTC", "%A, %B %d, %Y at %H:%M UTC",
                 "%Y-%m-%dT%H:%M:%S.%fZ", "%Y-%m-%dT%H:%M:%SZ",
                 "%Y-%m-%d %H:%M:%S", "iso"}

\* _parse_human_datetime(ts).date(): the day of a timestamp in a known format,
\* and the current day for one that does not parse.
ParseHumanDatetime(ts, now) == IF ts[1] \in ParseFormats THEN ts[2] ELSE now

EntryDate(entry, now) == ParseHumanDatetime(entry.timestamp, now)

\* ------------------------------------------------------------ partitions
\* get_past_day_entries_for_summarization with <= for <: today counts as past
\* as well.
UpToToday(mem, now) ==
    SelectSeq(mem, LAMBDA e : ParseHumanDatetime(e.timestamp, now) <= now)

\* get_past_day_entries_for_summarization
GetPastDayEntries(mem, now) ==
    SelectSeq(mem, LAMBDA e : EntryDate(e, now) < now)

\* get_current_day_entries without its test on the date.
KeepEverything(mem, now) == mem

\* get_current_day_entries with > for >=: today itself counts as past.
AfterToday(mem, now) ==
    SelectSeq(mem, LAMBDA e : ParseHumanDatetime(e.timestamp, now) > now)

\* get_current_day_entries
GetCurrentDayEntries(mem, now) ==
    SelectSeq(mem, LAMBDA e : EntryDate(e, now) >= now)

\* The keys of daily_conversations in insertion order (a dict keeps it).
RECURSIVE DistinctDates(_, _)
DistinctDates(entries, now) ==
    IF entries = <<>> THEN <<>>
    ELSE LET d == EntryDate(Head(entries), now)
         IN <<d>> \o SelectSeq(DistinctDates(Tail(entries), now),
                               LAMBDA x : x # d)

\* _group_entries_by_day without its final filter on the bucket size.
GroupAnyDay(entries, now) ==
    LET past == SelectSeq(entries, LAMBDA e : ~(EntryDate(e, now) >= now))
        days == DistinctDates(past, now)
    IN [i \in 1..Len(days) |->
          [date |-> days[i],
           entries |-> SelectSeq(past, LAMBDA e : EntryDate(e, now) = days[i])]]

\* _group_entries_by_day
GroupEntriesByDay(entries, now) ==
    LET past == SelectSeq(entries, LAMBDA e : ~(EntryDate(e, now) >= now))
        days == DistinctDates(past, now)
        all == [i \in 1..Len(days) |->
                  [date |-> days[i],
                   entries |-> SelectSeq(past,
                                  LAMBDA e : EntryDate(e, now) = days[i])]]
    IN SelectSeq(all, LAMBDA b : Len(b.entries) >= MIN_DAY_ENTRIES)

\* ------------------------------------------------------------ the stores
\* The record summarize_memory builds and add_summary_embedding appends.
SummaryRecord(text, date, count, embedding) ==
    [text |-> text,
     embedding |-> embedding,
     metadata |-> [entry_type |-> "daily_conversation_summary",
                   source_type |-> "personal",
                   conversation_date |-> date,
                   entries_count |-> count,
                   created_by |-> "summarizer"]]

\* add_summary_embedding: nothing is appended when the embedding call fails.
AddSummaryEmbedding(data, text, date, count, embedding) ==
    IF embedding = None THEN data
    ELSE Append(data, SummaryRecord(text, date, count, embedding.value))

\* A save that leaves the file as it was.
SkipSave(data, file) == file

\* _save_embeddings / _save_memory: json.dump of the list to the file.
SaveEmbeddings(data, file) == data
SaveMemory(data, file) == data

\* _load_memory: json.load of both files.
LoadMemory(file) == file

\* What the embedding endpoint answers: no embedding, or a vector.
EmbeddingOutcomes == {None, Some(<<3, 4>>)}
\* What the text-generation endpoint answers (_call_ollama_for_summary).
SummaryOutcomes == {None, Some("summary")}

\* ------------------------------------------------------------- history
HasRaw(mem, d) == \E i \in 1..Len(mem) : mem[i].timestamp[2] = d
                                       /\ mem[i].timestamp[1] \in ParseFormats
HasSummary(data, d) ==
    \E i \in 1..Len(data) : data[i].metadata.conversation_date = d
Range(s) == {s[i] : i \in 1..Len(s)}
DatesOf(buckets) == {buckets[i].date : i \in 1..Len(buckets)}

\* The history of a cycle: the stores and the day when it collected, the
\* days it took as candidates, and what happened to each.
NoCycle == [running |-> FALSE, startMemory |-> <<>>, startToday |-> 0,
            startEmbeddings |-> <<>>, startMemoryFile |-> <<>>,
            startEmbeddingsFile |-> <<>>, candidates |-> {}, genFailed |-> {},
            embFailed |-> {}, inserted |-> {}]

\* ------------------------------------------------------------------ Init
\* memory.json as earlier runs left it: per past day, the entries of its
\* interactions, each a user and an assistant entry with one timestamp.  A
\* past day is empty, holds one interaction (fewer entries than
\* MIN_DAY_ENTRIES) or holds MaxPerDay interactions.
Interaction(content, day) ==
    <<[role |-> "user", content |-> content, timestamp |-> FormatTimestamp(day)],
      [role |-> "assistant", content |-> content, timestamp |-> FormatTimestamp(day)]>>

RECURSIVE DayLog(_, _)
DayLog(day, n) ==
    IF n = 0 THEN <<>>
    ELSE DayLog(day, n - 1) \o Interaction(day * MaxPerDay + n, day)

RECURSIVE StoredLog(_, _)
StoredLog(f, days) ==
    IF days = 0 THEN <<>>
    ELSE StoredLog(f, days - 1) \o DayLog(days - 1, f[days - 1])

DaySizes == {0, 1, MaxPerDay}

StoredLogs == {StoredLog(f, PastDays) : f \in [0..(PastDays - 1) -> DaySizes]}

Init ==
    /\ today = PastDays
    /\ memory_file \in StoredLogs
    /\ memory = LoadMemory(memory_file)
    /\ embeddings_file = <<>>
    /\ embeddings_data = LoadMemory(embeddings_file)
    /\ apc = "idle"
    /\ daily_conversations = <<>>
    /\ summary = None
    /\ summaries_created = 0
    /\ entries_to_remove = 0
    /\ current_day_entries = <<>>
    /\ result = "none"
    /\ spc = "idle"
    /\ timestamp = None
    /\ interactions = 0
    /\ events = 0
    /\ cycle = NoCycle
    /\ base_embeddings = <<>>
    /\ query = <<>>
    /\ k = 0
    /\ include_base = TRUE
    /\ query_embedding = None
    /\ search_call = "none"
    /\ search_result = <<>>
    /\ base_files = base_embeddings
    /\ export_file = None
    /\ call = "none"
    /\ args = <<>>
    /\ returned = None
    /\ before = <<>>
    /\ interaction_count = 0
    /\ last_summarization = 0
    /\ cpc = "idle"
    /\ rpc = "idle"
    /\ embeddings_to_load = <<>>

\* --------------------------------------------------- the archival cycle
\* _format_conversation_for_summary: only user and assistant entries are
\* rendered; _create_daily_conversation_summary returns None for an empty text.
FormatConversation(entries) ==
    SelectSeq(entries, LAMBDA e : e.role \in {"user", "assistant"})

\* The loop of summarize_memory moves to the next day, or leaves the loop.
NextDay ==
    /\ daily_conversations' = Tail(daily_conversations)
    /\ summary' = None
    /\ apc' = IF Tail(daily_conversations) = <<>> THEN "finish" ELSE "generate"

\* summarize_memory up to the loop: collect, the early returns, group by day.
Collect ==
    /\ apc = "idle"
    /\ LET past == GetPastDayEntries(memory, today)
           daily == GroupEntriesByDay(past, today)
       IN /\ cycle' = [running |-> TRUE, startMemory |-> memory,
                       startToday |-> today,
                       startEmbeddings |-> embeddings_data,
                       startMemoryFile |-> memory_file,
                       startEmbeddingsFile |-> embeddings_file,
                       candidates |-> DatesOf(daily), genFailed |-> {},
                       embFailed |-> {}, inserted |-> {}]
          /\ IF past = <<>> \/ Len(past) < MIN_PAST_ENTRIES \/ daily = <<>>
             THEN /\ apc' = "done"
                  /\ result' = "False"
                  /\ UNCHANGED archLocals
             ELSE /\ apc' = "generate"
                  /\ result' = "none"
                  /\ daily_conversations' = daily
                  /\ summary' = None
                  /\ summaries_created' = 0
                  /\ entries_to_remove' = 0
                  /\ UNCHANGED current_day_entries
    /\ UNCHANGED <<reloadVars, coreVars, searchVars, callVars, today, memory, embeddings_data, memory_file, embeddings_file,
                   spc, timestamp, interactions, events>>

\* _create_daily_conversation_summary for the next day: the call to the
\* text-generation endpoint answers out; a day without text is skipped.
Generate(out) ==
    /\ apc = "generate"
    /\ LET day == Head(daily_conversations)
           text == IF FormatConversation(day.entries) = <<>> THEN None ELSE out
       IN IF text = None
          THEN /\ NextDay
               /\ cycle' = [cycle EXCEPT !.genFailed = @ \cup {day.date}]
          ELSE /\ summary' = text
               /\ apc' = "embed"
               /\ UNCHANGED <<reloadVars, coreVars, searchVars, callVars, daily_conversations, cycle>>
    /\ UNCHANGED <<reloadVars, coreVars, searchVars, callVars, today, memory, embeddings_data, memory_file, embeddings_file,
                   summaries_created, entries_to_remove, current_day_entries,
                   result, spc, timestamp, interactions, events>>

\* add_summary_embedding(summary, metadata) and the two counters after it: the
\* embedding endpoint answers out; the record is appended and the file saved
\* only when there is an embedding; the counters advance either way.
Embed(out) ==
    /\ apc = "embed"
    /\ LET day == Head(daily_conversations)
       IN /\ embeddings_data' = AddSummaryEmbedding(embeddings_data, summary.value,
                                    day.date, Len(day.entries), out)
          /\ embeddings_file' = IF out = None THEN embeddings_file
                                ELSE SaveEmbeddings(embeddings_data', embeddings_file)
          /\ summaries_created' = summaries_created + 1
          /\ entries_to_remove' = entries_to_remove + Len(day.entries)
          /\ cycle' = IF out = None
                      THEN [cycle EXCEPT !.embFailed = @ \cup {day.date}]
                      ELSE [cycle EXCEPT !.inserted = @ \cup {day.date}]
    /\ NextDay
    /\ UNCHANGED <<reloadVars, coreVars, searchVars, callVars, today, memory, memory_file, current_day_entries, result, spc,
                   timestamp, interactions, events>>

\* A run that stays after its loop and never returns.
Stall ==
    /\ apc = "finish"
    /\ UNCHANGED vars

\* After the loop: return False when nothing was counted, else enter
\* remove_summarized_past_day_entries, which reads the current-day entries.
Finish ==
    /\ apc = "finish"
    /\ IF summaries_created > 0 /\ entries_to_remove > 0
       THEN /\ current_day_entries' = GetCurrentDayEntries(memory, today)
            /\ apc' = "prune_assign"
            /\ UNCHANGED result
       ELSE /\ apc' = "done"
            /\ result' = IF summaries_created > 0 THEN "True" ELSE "False"
            /\ UNCHANGED current_day_entries
    /\ UNCHANGED <<reloadVars, coreVars, searchVars, callVars, today, memory, embeddings_data, memory_file, embeddings_file,
                   daily_conversations, summary, summaries_created,
                   entries_to_remove, spc, timestamp, interactions, events, cycle>>

\* remove_summarized_past_day_entries: self.memory = current_day_entries
PruneAssign ==
    /\ apc = "prune_assign"
    /\ memory' = current_day_entries
    /\ apc' = "prune_save"
    /\ UNCHANGED <<reloadVars, coreVars, searchVars, callVars, today, embeddings_data, memory_file, embeddings_file,
                   daily_conversations, summary, summaries_created,
                   entries_to_remove, current_day_entries, result, spc,
                   timestamp, interactions, events, cycle>>

\* remove_summarized_past_day_entries: self._save_memory(); then
\* summarize_memory returns True.
PruneSave ==
    /\ apc = "prune_save"
    /\ memory_file' = SaveMemory(memory, memory_file)
    /\ result' = "True"
    /\ apc' = "done"
    /\ UNCHANGED <<reloadVars, coreVars, searchVars, callVars, today, memory, embeddings_data, embeddings_file,
                   daily_conversations, summary, summaries_created,
                   entries_to_remove, current_day_entries, spc, timestamp,
                   interactions, events, cycle>>

\* The caller has the result; the thread ends.
ArchiveReturn ==
    /\ apc = "done"
    /\ apc' = "idle"
    /\ daily_conversations' = <<>>
    /\ summary' = None
    /\ summaries_created' = 0
    /\ entries_to_remove' = 0
    /\ current_day_entries' = <<>>
    /\ result' = "none"
    /\ cycle' = NoCycle
    /\ UNCHANGED <<reloadVars, coreVars, searchVars, callVars, today, memory, embeddings_data, memory_file, embeddings_file,
                   spc, timestamp, interactions, events>>

\* ------------------------------------------------------ save_interaction
Entry(role, content, ts) == [role |-> role, content |-> content, timestamp |-> ts]
LiveContent == PastDays * MaxPerDay + interactions

\* timestamp = self._format_timestamp()
SaveBegin ==
    /\ spc = "idle"
    /\ events < MaxEvents
    /\ events' = events + 1
    /\ interactions' = interactions + 1
    /\ timestamp' = Some(FormatTimestamp(today))
    /\ spc' = "append_user"
    /\ UNCHANGED <<reloadVars, coreVars, searchVars, callVars, today, memory, embeddings_data, memory_file, embeddings_file,
                   apc, archLocals, result, cycle>>

\* self.memory.append({"role": "user", ...})
AppendUser ==
    /\ spc = "append_user"
    /\ memory' = Append(memory, Entry("user", LiveContent, timestamp.value))
    /\ spc' = "append_assistant"
    /\ UNCHANGED <<reloadVars, coreVars, searchVars, callVars, today, embeddings_data, memory_file, embeddings_file, apc,
                   archLocals, result, timestamp, interactions, events,
                   cycle>>

\* self.memory.append({"role": "assistant", ...})
AppendAssistant ==
    /\ spc = "append_assistant"
    /\ memory' = Append(memory, Entry("assistant", LiveContent, timestamp.value))
    /\ spc' = "save"
    /\ UNCHANGED <<reloadVars, coreVars, searchVars, callVars, today, embeddings_data, memory_file, embeddings_file, apc,
                   archLocals, result, timestamp, interactions, events,
                   cycle>>

\* self._save_memory(); save_interaction returns.
SaveInteractionSave ==
    /\ spc = "save"
    /\ memory_file' = SaveMemory(memory, memory_file)
    /\ spc' = "done"
    /\ UNCHANGED <<reloadVars, coreVars, searchVars, callVars, today, memory, embeddings_data, embeddings_file, apc,
                   archLocals, result, timestamp, interactions, events,
                   cycle>>

SaveReturn ==
    /\ spc = "done"
    /\ spc' = "idle"
    /\ timestamp' = None
    /\ UNCHANGED <<reloadVars, coreVars, searchVars, callVars, today, memory, embeddings_data, memory_file, embeddings_file,
                   apc, archLocals, result, interactions, events, cycle>>

\* ------------------------------------------------------ the environment
\* Midnight UTC passes.
Tick ==
    /\ apc # "crashed"
    /\ events < MaxEvents
    /\ events' = events + 1
    /\ today' = today + 1
    /\ UNCHANGED <<reloadVars, coreVars, searchVars, callVars, memory, embeddings_data, memory_file, embeddings_file, apc,
                   archLocals, result, spc, timestamp, interactions, cycle>>

\* The process dies inside a handler: what is not in the two files is gone.
Crash ==
    /\ apc # "crashed"
    /\ apc # "idle" \/ spc # "idle"
    /\ events < MaxEvents
    /\ events' = events + 1
    /\ apc' = "crashed"
    /\ spc' = "crashed"
    /\ memory' = <<>>
    /\ embeddings_data' = <<>>
    /\ daily_conversations' = <<>>
    /\ summary' = None
    /\ summaries_created' = 0
    /\ entries_to_remove' = 0
    /\ current_day_entries' = <<>>
    /\ result' = "none"
    /\ timestamp' = None
    /\ UNCHANGED <<reloadVars, coreVars, searchVars, callVars, today, memory_file, embeddings_file, interactions, cycle>>

\* MemoryManager.__init__: _load_memory reads both files.
Restart ==
    /\ apc = "crashed"
    /\ apc' = "idle"
    /\ spc' = "idle"
    /\ memory' = LoadMemory(memory_file)
    /\ embeddings_data' = LoadMemory(embeddings_file)
    /\ cycle' = NoCycle
    /\ UNCHANGED <<reloadVars, coreVars, searchVars, callVars, today, memory_file, embeddings_file, archLocals, result,
                   timestamp, interactions, events>>

Archiver ==
    \/ Collect
    \/ \E out \in SummaryOutcomes : Generate(out)
    \/ \E out \in EmbeddingOutcomes : Embed(out)
    \/ Finish
    \/ PruneAssign
    \/ PruneSave
    \/ ArchiveReturn

Chat ==
    \/ SaveBegin
    \/ AppendUser
    \/ AppendAssistant
    \/ SaveInteractionSave
    \/ SaveReturn

Next == Archiver \/ Chat \/ Tick \/ Crash \/ Restart

Spec == Init /\ [][Next]_vars

\* The terminal loop: a handler starts only when the other is not running.
SeqNext ==
    \/ (spc = "idle" /\ Archiver)
    \/ (apc = "idle" /\ Chat)
    \/ Tick
    \/ Crash
    \/ Restart

SeqSpec == Init /\ [][SeqNext]_vars

\* ================================================================ search
\* A text that the code scans is the sequence of its characters.  A score is
\* a number of hundredths: 0.3 is 30, 1.0 is 100.
ASCII_UPPER == <<"A","B","C","D","E","F","G","H","I","J","K","L","M",
                 "N","O","P","Q","R","S","T","U","V","W","X","Y","Z">>
ASCII_LOWER == <<"a","b","c","d","e","f","g","h","i","j","k","l","m",
                 "n","o","p","q","r","s","t","u","v","w","x","y","z">>

\* str.lower()
ToLower(text) ==
    [i \in 1..Len(text) |->
        IF \E j \in 1..Len(ASCII_UPPER) : ASCII_UPPER[j] = text[i]
        THEN ASCII_LOWER[CHOOSE j \in 1..Len(ASCII_UPPER) : ASCII_UPPER[j] = text[i]]
        ELSE text[i]]

\* keyword in query_lower
Contains(text, sub) ==
    \E i \in 0..(Len(text) - Len(sub)) : SubSeq(text, i + 1, i + Len(sub)) = sub

\* set(text.split()): the maximal runs of characters other than the space
Split(text) ==
    {SubSeq(text, p[1], p[2]) :
        p \in {w \in (1..Len(text)) \X (1..Len(text)) :
                 /\ w[1] <= w[2]
                 /\ \A n \in w[1]..w[2] : text[n] # " "
                 /\ w[1] = 1 \/ text[w[1] - 1] = " "
                 /\ w[2] = Len(text) \/ text[w[2] + 1] = " "}}

\* dict.get(key, default)
Get(d, key, default) == IF key \in DOMAIN d THEN d[key] ELSE default

Min(a, b) == IF a <= b THEN a ELSE b

\* self.minecraft_context_patterns, in the order of the dict
minecraft_context_patterns == <<
    [category |-> "combat", keywords |-> <<
        <<"f","i","g","h","t">>,  \* fight
        <<"m","o","b">>,  \* mob
        <<"a","t","t","a","c","k">>,  \* attack
        <<"d","e","f","e","n","d">>,  \* defend
        <<"w","e","a","p","o","n">>,  \* weapon
        <<"a","r","m","o","r">>,  \* armor
        <<"z","o","m","b","i","e">>,  \* zombie
        <<"s","k","e","l","e","t","o","n">>,  \* skeleton
        <<"c","r","e","e","p","e","r">>,  \* creeper
        <<"s","p","i","d","e","r">>,  \* spider
        <<"e","n","d","e","r","m","a","n">>  \* enderman
        >>],
    [category |-> "crafting", keywords |-> <<
        <<"c","r","a","f","t">>,  \* craft
        <<"r","e","c","i","p","e">>,  \* recipe
        <<"m","a","k","e">>,  \* make
        <<"b","u","i","l","d">>,  \* build
        <<"c","r","e","a","t","e">>,  \* create
        <<"f","u","r","n","a","c","e">>,  \* furnace
        <<"t","a","b","l","e">>,  \* table
        <<"s","m","e","l","t">>  \* smelt
        >>],
    [category |-> "mining", keywords |-> <<
        <<"m","i","n","e">>,  \* mine
        <<"d","i","g">>,  \* dig
        <<"o","r","e">>,  \* ore
        <<"c","a","v","e">>,  \* cave
        <<"u","n","d","e","r","g","r","o","u","n","d">>,  \* underground
        <<"p","i","c","k","a","x","e">>,  \* pickaxe
        <<"s","t","o","n","e">>,  \* stone
        <<"i","r","o","n">>,  \* iron
        <<"d","i","a","m","o","n","d">>,  \* diamond
        <<"c","o","a","l">>  \* coal
        >>],
    [category |-> "farming", keywords |-> <<
        <<"f","a","r","m">>,  \* farm
        <<"g","r","o","w">>,  \* grow
        <<"c","r","o","p">>,  \* crop
        <<"p","l","a","n","t">>,  \* plant
        <<"f","o","o","d">>,  \* food
        <<"w","h","e","a","t">>,  \* wheat
        <<"c","a","r","r","o","t">>,  \* carrot
        <<"p","o","t","a","t","o">>,  \* potato
        <<"b","r","e","e","d">>,  \* breed
        <<"a","n","i","m","a","l">>  \* animal
        >>],
    [category |-> "building", keywords |-> <<
        <<"b","u","i","l","d">>,  \* build
        <<"c","o","n","s","t","r","u","c","t">>,  \* construct
        <<"h","o","u","s","e">>,  \* house
        <<"s","h","e","l","t","e","r">>,  \* shelter
        <<"w","a","l","l">>,  \* wall
        <<"r","o","o","f">>,  \* roof
        <<"d","o","o","r">>,  \* door
        <<"b","l","o","c","k">>  \* block
        >>],
    [category |-> "survival", keywords |-> <<
        <<"h","u","n","g","e","r">>,  \* hunger
        <<"h","e","a","l","t","h">>,  \* health
        <<"e","a","t">>,  \* eat
        <<"s","l","e","e","p">>,  \* sleep
        <<"b","e","d">>,  \* bed
        <<"d","a","y">>,  \* day
        <<"n","i","g","h","t">>,  \* night
        <<"s","p","a","w","n">>  \* spawn
        >>],
    [category |-> "exploration", keywords |-> <<
        <<"e","x","p","l","o","r","e">>,  \* explore
        <<"t","r","a","v","e","l">>,  \* travel
        <<"f","i","n","d">>,  \* find
        <<"l","o","c","a","t","e">>,  \* locate
        <<"b","i","o","m","e">>,  \* biome
        <<"v","i","l","l","a","g","e">>,  \* village
        <<"s","t","r","u","c","t","u","r","e">>  \* structure
        >>],
    [category |-> "progression", keywords |-> <<
        <<"u","p","g","r","a","d","e">>,  \* upgrade
        <<"a","d","v","a","n","c","e">>,  \* advance
        <<"t","i","e","r">>,  \* tier
        <<"b","e","t","t","e","r">>,  \* better
        <<"i","m","p","r","o","v","e">>,  \* improve
        <<"n","e","x","t">>,  \* next
        <<"g","o","a","l">>  \* goal
        >>]
    >>

\* _classify_query_intent: the confidence is the fraction matches / size
\* A classification by the number of keywords found, whatever the size of
\* the category.
ClassifyByCount(text) ==
    LET query_lower == ToLower(text)
        patterns == minecraft_context_patterns
        score(i) == Cardinality({n \in 1..Len(patterns[i].keywords) :
                                   Contains(query_lower, patterns[i].keywords[n])})
        scores == {i \in 1..Len(patterns) : score(i) > 0}
        best == CHOOSE i \in scores : \A j \in scores :
                    score(j) < score(i) \/ (score(j) = score(i) /\ i <= j)
    IN IF scores = {}
       THEN [category |-> "general", matches |-> 0, size |-> 1]
       ELSE [category |-> patterns[best].category, matches |-> score(best),
             size |-> Len(patterns[best].keywords)]

ClassifyQueryIntent(text) ==
    LET query_lower == ToLower(text)
        patterns == minecraft_context_patterns
        score(i) == Cardinality({n \in 1..Len(patterns[i].keywords) :
                                   Contains(query_lower, patterns[i].keywords[n])})
        size(i) == Len(patterns[i].keywords)
        scores == {i \in 1..Len(patterns) : score(i) > 0}
        \* max(scores, key=...): the first of the categories with the
        \* highest score / size
        best == CHOOSE i \in scores : \A j \in scores :
                    \/ score(j) * size(i) < score(i) * size(j)
                    \/ score(j) * size(i) = score(i) * size(j) /\ i <= j
    IN IF scores = {}
       THEN [category |-> "general", matches |-> 0, size |-> 1]
       ELSE [category |-> patterns[best].category, matches |-> score(best),
             size |-> size(best)]

RECURSIVE DotProduct(_, _)
DotProduct(a, b) ==
    IF a = <<>> THEN 0 ELSE Head(a) * Head(b) + DotProduct(Tail(a), Tail(b))

\* dot / sqrt(norms2) in hundredths, truncated toward zero
Quotient(dot, norms2) ==
    LET mag == IF dot < 0 THEN -dot ELSE dot
        q == CHOOSE s \in 0..100 :
                 /\ s * s * norms2 <= 10000 * mag * mag
                 /\ (s + 1) * (s + 1) * norms2 > 10000 * mag * mag
    IN IF dot < 0 THEN -q ELSE q

\* A similarity that takes a vector without length for a match.
ZeroNormIsOne(vec1, vec2) ==
    IF Len(vec1) # Len(vec2) THEN 0
    ELSE LET norm_a2 == DotProduct(vec1, vec1)
             norm_b2 == DotProduct(vec2, vec2)
         IN IF norm_a2 = 0 \/ norm_b2 = 0 THEN 100
            ELSE Quotient(DotProduct(vec1, vec2), norm_a2 * norm_b2)

\* _cosine_similarity: np.dot raises on vectors of different lengths and the
\* except branch returns 0.0; a zero norm returns 0.0.
CosineSimilarity(vec1, vec2) ==
    IF Len(vec1) # Len(vec2) THEN 0
    ELSE LET norm_a2 == DotProduct(vec1, vec1)
             norm_b2 == DotProduct(vec2, vec2)
         IN IF norm_a2 = 0 \/ norm_b2 = 0 THEN 0
            ELSE Quotient(DotProduct(vec1, vec2), norm_a2 * norm_b2)

\* A score without the cap.
UncappedScore(item, text, base_similarity) ==
    LET metadata == Get(item, "metadata", <<>>)
        intent == ClassifyQueryIntent(text)
        chunk_type == Get(metadata, "chunk_type", "general_guide")
        category_boost ==
            IF intent.category # "general" /\ 10 * intent.matches > 3 * intent.size
            THEN IF chunk_type = intent.category THEN 20
                 ELSE IF chunk_type = "decision_guide" THEN 10 ELSE 0
            ELSE 0
        keyword_matches ==
            Cardinality(Range(Get(metadata, "keywords", <<>>))
                            \cap Split(ToLower(text)))
        section_level == Get(metadata, "section_level", 1)
    IN base_similarity + category_boost + keyword_matches * 5
           + (IF section_level <= 2 THEN 5 ELSE 0)

\* _calculate_relevance_score
CalculateRelevanceScore(item, text, base_similarity) ==
    LET metadata == Get(item, "metadata", <<>>)
        intent == ClassifyQueryIntent(text)
        chunk_type == Get(metadata, "chunk_type", "general_guide")
        category_boost ==
            IF intent.category # "general" /\ 10 * intent.matches > 3 * intent.size
            THEN IF chunk_type = intent.category THEN 20
                 ELSE IF chunk_type = "decision_guide" THEN 10 ELSE 0
            ELSE 0
        keywords == Get(metadata, "keywords", <<>>)
        query_words == Split(ToLower(text))
        keyword_matches == Cardinality(Range(keywords) \cap query_words)
        keyword_boost ==
            IF keyword_matches > 0 THEN Min(15, keyword_matches * 5) ELSE 0
        section_level == Get(metadata, "section_level", 1)
        level_boost == IF section_level <= 2 THEN 5 ELSE 0
    IN Min(base_similarity + category_boost + keyword_boost + level_boost, 100)

\* A sort that leaves the list as it was.
KeepOrder(results, key) == results

\* results.sort(key=lambda x: x[key], reverse=True): stable
RECURSIVE SortDescending(_, _)
SortDescending(results, key) ==
    IF results = <<>> THEN <<>>
    ELSE LET sorted == SortDescending(SubSeq(results, 1, Len(results) - 1), key)
             r == results[Len(results)]
             pos == Cardinality({i \in 1..Len(sorted) : sorted[i][key] >= r[key]})
         IN SubSeq(sorted, 1, pos) \o <<r>> \o SubSeq(sorted, pos + 1, Len(sorted))

\* [r for r in results if r[key] > 0.3]
FilterMinimum(results, key) == SelectSeq(results, LAMBDA r : r[key] > 30)

\* results[:k]; a negative k drops the last -k results
Slice(results, n) ==
    IF n >= 0 THEN SubSeq(results, 1, Min(n, Len(results)))
    ELSE SubSeq(results, 1, Len(results) + n)

\* the loop of the three searches: items without an embedding are skipped
WithEmbedding(all_embeddings) ==
    SelectSeq(all_embeddings, LAMBDA item : Get(item, "embedding", <<>>) # <<>>)

\* memory_manager.py: what search_embeddings appends for an item
SimilarityResult(item, embedding, source_type) ==
    [text |-> item.text,
     similarity |-> CosineSimilarity(embedding, item.embedding),
     metadata |-> Get(item, "metadata", <<>>),
     timestamp |-> Get(item, "timestamp", ""),
     source_type |-> source_type]

\* memory_manipulation.py: what search_embeddings appends for an item
RelevanceResult(item, text, embedding) ==
    LET base_similarity == CosineSimilarity(embedding, item.embedding)
        metadata == Get(item, "metadata", <<>>)
    IN [text |-> item.text,
        similarity |-> base_similarity,
        relevance_score |-> CalculateRelevanceScore(item, text, base_similarity),
        metadata |-> metadata,
        timestamp |-> Get(item, "timestamp", ""),
        source_type |-> Get(metadata, "source_type", "personal"),
        chunk_type |-> Get(metadata, "chunk_type", "general"),
        context_path |-> Get(metadata, "context_path", ""),
        keywords |-> Get(metadata, "keywords", <<>>)]

\* all_embeddings = self.embeddings_data.copy(), extended when include_base
AllEmbeddings(base) ==
    IF base THEN embeddings_data \o base_embeddings ELSE embeddings_data

\* ------------------------------------------------- the stores and queries
\* _load_base_memory: a record of a knowledge file, as loaded
KnowledgeRecord(text, embedding, fields) ==
    [text |-> text,
     embedding |-> embedding,
     metadata |-> fields @@ [source_file |-> "guide.json",
                             source_type |-> "base_memory"]]

KnowledgeRecords ==
    {KnowledgeRecord("villages", <<3, 4>>,
        [chunk_type |-> "exploration", section_level |-> 2,
         keywords |-> <<<<"v","i","l","l","a","g","e">>, <<"b","i","o","m","e">>>>]),
     KnowledgeRecord("what to do next", <<4, 3>>,
        [chunk_type |-> "decision_guide", section_level |-> 3]),
     KnowledgeRecord("mobs", <<-3, 4>>,
        [chunk_type |-> "combat", section_level |-> 1,
         keywords |-> <<<<"m","o","b">>>>]),
     KnowledgeRecord("notes", <<0, 0>>, <<>>),
     KnowledgeRecord("other model", <<1, 0, 0>>, <<>>)}

RECURSIVE SeqsUpTo(_, _)
SeqsUpTo(S, n) ==
    IF n = 0 THEN {<<>>}
    ELSE LET shorter == SeqsUpTo(S, n - 1)
         IN shorter \cup {Append(s, x) : s \in shorter, x \in S}

\* self.base_embeddings after _load_base_memory
BaseStores == SeqsUpTo(KnowledgeRecords, MaxRecords)

\* embeddings.json: nothing, one daily summary, or an imported record
\* without a vector before it
SummaryStores ==
    {<<>>,
     <<SummaryRecord("summary", 0, MIN_DAY_ENTRIES, <<3, 4>>)>>,
     <<[text |-> "imported", embedding |-> <<>>],
       SummaryRecord("summary", 0, MIN_DAY_ENTRIES, <<3, 4>>)>>}

Queries ==
    {<<>>,
     <<"m","o","b">>,
     <<"F","i","n","d"," ","v","i","l","l","a","g","e"," ","b","i","o","m","e">>,
     <<"c","r","a","f","t"," ","m","a","k","e"," ","s","m","e","l","t">>}

\* _get_ollama_embedding(query)
QueryEmbeddingOutcomes == {None, Some(<<3, 4>>), Some(<<4, -3>>)}

Ks == (-1)..MaxK

SearchInit ==
    /\ today = PastDays
    /\ memory_file = <<>>
    /\ memory = LoadMemory(memory_file)
    /\ embeddings_file \in SummaryStores
    /\ embeddings_data = LoadMemory(embeddings_file)
    /\ base_embeddings \in BaseStores
    /\ apc = "idle"
    /\ daily_conversations = <<>>
    /\ summary = None
    /\ summaries_created = 0
    /\ entries_to_remove = 0
    /\ current_day_entries = <<>>
    /\ result = "none"
    /\ spc = "idle"
    /\ timestamp = None
    /\ interactions = 0
    /\ events = 0
    /\ cycle = NoCycle
    /\ query = <<>>
    /\ k = 0
    /\ include_base = TRUE
    /\ query_embedding = None
    /\ search_call = "none"
    /\ search_result = <<>>
    /\ base_files = base_embeddings
    /\ export_file = None
    /\ call = "none"
    /\ args = <<>>
    /\ returned = None
    /\ before = <<>>
    /\ interaction_count = 0
    /\ last_summarization = 0
    /\ cpc = "idle"
    /\ rpc = "idle"
    /\ embeddings_to_load = <<>>

storeVars == <<today, memory, embeddings_data, memory_file, embeddings_file,
               apc, archLocals, result, spc, timestamp, interactions, events,
               cycle, base_embeddings, callVars, coreVars, reloadVars>>

\* ------------------------------------------------------------ the searches
\* memory_manager.py search_embeddings
SearchEmbeddings(text, n, base, out) ==
    LET all_embeddings == AllEmbeddings(base)
        items == WithEmbedding(all_embeddings)
        results == [i \in 1..Len(items) |->
                      SimilarityResult(items[i], out.value,
                          Get(Get(items[i], "metadata", <<>>), "source_type",
                              "personal"))]
        filtered_results ==
            FilterMinimum(SortDescending(results, "similarity"), "similarity")
    IN /\ search_call = "none"
       /\ search_call' = "memory_manager.search_embeddings"
       /\ query' = text
       /\ k' = n
       /\ include_base' = base
       /\ query_embedding' = IF all_embeddings = <<>> THEN None ELSE out
       /\ search_result' = IF all_embeddings = <<>> \/ out = None THEN <<>>
                           ELSE Slice(filtered_results, n)
       /\ UNCHANGED storeVars

\* memory_manipulation.py search_embeddings
SearchEmbeddingsByRelevance(text, n, base, out) ==
    LET all_embeddings == AllEmbeddings(base)
        items == WithEmbedding(all_embeddings)
        results == [i \in 1..Len(items) |->
                      RelevanceResult(items[i], text, out.value)]
        filtered_results ==
            FilterMinimum(SortDescending(results, "relevance_score"),
                          "relevance_score")
    IN /\ search_call = "none"
       /\ search_call' = "memory_manipulation.search_embeddings"
       /\ query' = text
       /\ k' = n
       /\ include_base' = base
       /\ query_embedding' = IF all_embeddings = <<>> THEN None ELSE out
       /\ search_result' = IF all_embeddings = <<>> \/ out = None THEN <<>>
                           ELSE Slice(filtered_results, n)
       /\ UNCHANGED storeVars

\* memory_manager.py search_base_memory_only: no minimum similarity
SearchBaseMemoryOnly(text, n, out) ==
    LET items == WithEmbedding(base_embeddings)
        results == [i \in 1..Len(items) |->
                      SimilarityResult(items[i], out.value, "base_memory")]
    IN /\ search_call = "none"
       /\ search_call' = "memory_manager.search_base_memory_only"
       /\ query' = text
       /\ k' = n
       /\ query_embedding' = IF base_embeddings = <<>> THEN None ELSE out
       /\ search_result' = IF base_embeddings = <<>> \/ out = None THEN <<>>
                           ELSE Slice(SortDescending(results, "similarity"), n)
       /\ UNCHANGED <<storeVars, include_base>>

\* The caller takes the list; the store is ready for the next search.
SearchReturn ==
    /\ search_call # "none"
    /\ search_call' = "none"
    /\ query' = <<>>
    /\ k' = 0
    /\ include_base' = TRUE
    /\ query_embedding' = None
    /\ search_result' = <<>>
    /\ UNCHANGED storeVars

SearchNext ==
    \/ \E text \in Queries, n \in Ks, base \in BOOLEAN,
          out \in QueryEmbeddingOutcomes : SearchEmbeddings(text, n, base, out)
    \/ \E text \in Queries, n \in Ks, base \in BOOLEAN,
          out \in QueryEmbeddingOutcomes :
            SearchEmbeddingsByRelevance(text, n, base, out)
    \/ \E text \in Queries, n \in Ks, out \in QueryEmbeddingOutcomes :
            SearchBaseMemoryOnly(text, n, out)
    \/ SearchReturn

SearchSpec == SearchInit /\ [][SearchNext]_vars

\* ======================================================= the store's calls
\* The calls of MemoryManager that maintain the stores, one at a time.
BlankTexts == {"", " "}

\* _validate_embedding_item: the two fields, a text that is not blank and a
\* list that is not empty; the length of the vector is not looked at.
ValidateEmbeddingItem(item) ==
    /\ "text" \in DOMAIN item
    /\ "embedding" \in DOMAIN item
    /\ item.text \notin BlankTexts
    /\ item.embedding # <<>>

\* _load_base_memory: the valid items of the files, with the two metadata
\* fields the loader sets
LoadBaseMemory(files) ==
    LET valid == SelectSeq(files, ValidateEmbeddingItem)
    IN [i \in 1..Len(valid) |->
          ("metadata" :> ([source_file |-> "guide.json",
                           source_type |-> "base_memory"]
                          @@ Get(valid[i], "metadata", <<>>)))
          @@ valid[i]]

\* get_memory_stats
GetMemoryStats(mem, data, base, now) ==
    [current_day_entries |-> Len(GetCurrentDayEntries(mem, now)),
     past_day_unsummarized_entries |-> Len(GetPastDayEntries(mem, now)),
     total_memory_entries |-> Len(mem),
     daily_summary_embeddings_count |-> Len(data),
     base_embeddings_count |-> Len(base)]

\* export_memory: export_data
ExportData(mem, data, base, now) ==
    [chat_entries |-> mem,
     daily_summary_embeddings |-> data,
     base_embeddings_count |-> Len(base),
     current_day_entries |-> Len(GetCurrentDayEntries(mem, now)),
     past_day_entries |-> Len(GetPastDayEntries(mem, now)),
     export_timestamp |-> FormatTimestamp(now)]

\* import_memory: the entries and the records it takes from import_data
ImportedEntries(import_data) ==
    IF "chat_entries" \in DOMAIN import_data THEN import_data.chat_entries
    ELSE IF "memory" \in DOMAIN import_data THEN import_data.memory
    ELSE <<>>

ImportedEmbeddings(import_data) ==
    IF "daily_summary_embeddings" \in DOMAIN import_data
    THEN import_data.daily_summary_embeddings
    ELSE IF "summary_embeddings" \in DOMAIN import_data
    THEN import_data.summary_embeddings
    ELSE IF "embeddings" \in DOMAIN import_data THEN import_data.embeddings
    ELSE <<>>

\* ------------------------------------------------- the files of the store
\* memory.json: empty; an interaction of day 0 and one of today; or an entry
\* written with a timestamp none of the formats parses, before an
\* interaction of day 0
StoreLogs ==
    {<<>>,
     Interaction(1, 0) \o Interaction(2, PastDays),
     <<[role |-> "user", content |-> 3, timestamp |-> <<"%d/%m/%Y", 0>>]>>
        \o Interaction(1, 0)}

\* the knowledge-store files: none; a file of one model with an item
\* without text; a file of a model with longer vectors after it
KnowledgeFiles ==
    {<<>>,
     <<[text |-> "villages", embedding |-> <<3, 4>>,
        metadata |-> [chunk_type |-> "exploration", section_level |-> 2]],
       [text |-> " ", embedding |-> <<4, 3>>]>>,
     <<[text |-> "villages", embedding |-> <<3, 4>>,
        metadata |-> [chunk_type |-> "exploration", section_level |-> 2]],
       [text |-> "other model", embedding |-> <<1, 0, 0>>]>>}

\* a file in the legacy format, written with another embedding model
LegacyExport ==
    [memory |-> Interaction(4, 0),
     embeddings |-> <<SummaryRecord("old summary", 0, MIN_DAY_ENTRIES,
                                    <<1, 0, 0>>)>>]

\* _get_ollama_embedding(summary_text): the configured model may be another
\* one than the model that embedded the stored records
InsertOutcomes == {None, Some(<<3, 4>>), Some(<<1, 0, 0>>)}

\* The stores as a call finds them.
Snapshot ==
    [memory |-> memory, embeddings_data |-> embeddings_data,
     memory_file |-> memory_file, embeddings_file |-> embeddings_file,
     base_embeddings |-> base_embeddings, base_files |-> base_files,
     today |-> today,
     stats |-> GetMemoryStats(memory, embeddings_data, base_embeddings, today)]

StoreInit ==
    /\ today = PastDays
    /\ memory_file \in StoreLogs
    /\ memory = LoadMemory(memory_file)
    /\ embeddings_file \in SummaryStores
    /\ embeddings_data = LoadMemory(embeddings_file)
    /\ base_files \in KnowledgeFiles
    /\ base_embeddings = LoadBaseMemory(base_files)
    /\ apc = "idle"
    /\ daily_conversations = <<>>
    /\ summary = None
    /\ summaries_created = 0
    /\ entries_to_remove = 0
    /\ current_day_entries = <<>>
    /\ result = "none"
    /\ spc = "idle"
    /\ timestamp = None
    /\ interactions = 0
    /\ events = 0
    /\ cycle = NoCycle
    /\ query = <<>>
    /\ k = 0
    /\ include_base = TRUE
    /\ query_embedding = None
    /\ search_call = "none"
    /\ search_result = <<>>
    /\ export_file = None
    /\ call = "none"
    /\ args = <<>>
    /\ returned = None
    /\ before = <<>>
    /\ interaction_count = 0
    /\ last_summarization = 0
    /\ cpc = "idle"
    /\ rpc = "idle"
    /\ embeddings_to_load = <<>>

\* what a call of the store leaves alone
idleVars == <<apc, archLocals, result, spc, timestamp, cycle, query, k,
              include_base, query_embedding, search_call, search_result,
              coreVars, reloadVars>>

\* A call of the store starts: the stores as it finds them are recorded.
CallBegins(name, a) ==
    /\ events < MaxEvents
    /\ events' = events + 1
    /\ call' = name
    /\ args' = a
    /\ before' = Snapshot
    /\ UNCHANGED idleVars

\* save_interaction, the whole call; _save_memory prints and swallows the
\* exception of a write that fails, and the file stays as it was
SaveInteraction(write_ok) ==
    LET stamp == FormatTimestamp(today)
        content == LiveContent + 1
    IN /\ CallBegins("save_interaction", [write_ok |-> write_ok])
       /\ interactions' = interactions + 1
       /\ memory' = memory \o <<Entry("user", content, stamp),
                                Entry("assistant", content, stamp)>>
       /\ memory_file' = IF write_ok THEN SaveMemory(memory', memory_file)
                         ELSE memory_file
       /\ returned' = None
       /\ UNCHANGED <<today, embeddings_data, embeddings_file, base_embeddings,
                      base_files, export_file>>

\* remove_summarized_past_day_entries(num_entries_to_remove), called directly
RemoveSummarizedPastDayEntries(num_entries_to_remove) ==
    /\ CallBegins("remove_summarized_past_day_entries",
                  [num_entries_to_remove |-> num_entries_to_remove])
    /\ memory' = IF num_entries_to_remove <= 0 THEN memory
                 ELSE GetCurrentDayEntries(memory, today)
    /\ memory_file' = IF num_entries_to_remove <= 0 THEN memory_file
                      ELSE SaveMemory(memory', memory_file)
    /\ returned' = None
    /\ UNCHANGED <<today, embeddings_data, embeddings_file, base_embeddings,
                   base_files, export_file, interactions>>

\* A clear_memory that takes the knowledge store for personal memory too.
ClearEverything ==
    /\ CallBegins("clear_memory", <<>>)
    /\ memory' = <<>>
    /\ embeddings_data' = <<>>
    /\ base_embeddings' = <<>>
    /\ memory_file' = SaveMemory(memory', memory_file)
    /\ embeddings_file' = SaveEmbeddings(embeddings_data', embeddings_file)
    /\ returned' = None
    /\ UNCHANGED <<today, base_files, export_file, interactions>>

\* clear_memory
ClearMemory ==
    /\ CallBegins("clear_memory", <<>>)
    /\ memory' = <<>>
    /\ embeddings_data' = <<>>
    /\ memory_file' = SaveMemory(memory', memory_file)
    /\ embeddings_file' = SaveEmbeddings(embeddings_data', embeddings_file)
    /\ returned' = None
    /\ UNCHANGED <<today, base_embeddings, base_files, export_file,
                   interactions>>

\* export_memory(filepath)
ExportMemory ==
    /\ CallBegins("export_memory", <<>>)
    /\ export_file' = Some(ExportData(memory, embeddings_data, base_embeddings,
                                      today))
    /\ returned' = None
    /\ UNCHANGED <<today, memory, embeddings_data, memory_file, embeddings_file,
                   base_embeddings, base_files, interactions>>

\* import_memory(filepath): None is a path without a file, whose exception
\* the call prints and swallows
ImportMemory(file) ==
    /\ CallBegins("import_memory", [file |-> file])
    /\ memory' = IF file = None THEN memory
                 ELSE memory \o ImportedEntries(file.value)
    /\ embeddings_data' = IF file = None THEN embeddings_data
                          ELSE embeddings_data \o ImportedEmbeddings(file.value)
    /\ memory_file' = IF file = None THEN memory_file
                      ELSE SaveMemory(memory', memory_file)
    /\ embeddings_file' = IF file = None THEN embeddings_file
                          ELSE SaveEmbeddings(embeddings_data', embeddings_file)
    /\ returned' = None
    /\ UNCHANGED <<today, base_embeddings, base_files, export_file,
                   interactions>>

\* add_summary_embedding(summary_text, metadata), called directly
InsertSummary(out) ==
    /\ CallBegins("add_summary_embedding", [embedding |-> out])
    /\ embeddings_data' = AddSummaryEmbedding(embeddings_data, "summary",
                              today - 1, MIN_DAY_ENTRIES, out)
    /\ embeddings_file' = IF out = None THEN embeddings_file
                          ELSE SaveEmbeddings(embeddings_data', embeddings_file)
    /\ returned' = None
    /\ UNCHANGED <<today, memory, memory_file, base_embeddings, base_files,
                   export_file, interactions>>

\* reload_base_memory
ReloadBaseMemory ==
    /\ CallBegins("reload_base_memory", <<>>)
    /\ base_embeddings' = LoadBaseMemory(base_files)
    /\ returned' = None
    /\ UNCHANGED <<today, memory, embeddings_data, memory_file, embeddings_file,
                   base_files, export_file, interactions>>

\* Somebody replaces the files of the knowledge store.
ReplaceKnowledgeFiles(files) ==
    /\ events < MaxEvents
    /\ events' = events + 1
    /\ files # base_files
    /\ base_files' = files
    /\ call' = "none"
    /\ args' = <<>>
    /\ returned' = None
    /\ before' = <<>>
    /\ UNCHANGED <<idleVars, today, memory, embeddings_data, memory_file,
                   embeddings_file, base_embeddings, export_file, interactions>>

StoreNext ==
    \/ \E write_ok \in BOOLEAN : SaveInteraction(write_ok)
    \/ \E n \in {0, MIN_PAST_ENTRIES} : RemoveSummarizedPastDayEntries(n)
    \/ ClearMemory
    \/ ExportMemory
    \/ \E file \in {None, export_file, Some(LegacyExport)} : ImportMemory(file)
    \/ \E out \in InsertOutcomes : InsertSummary(out)
    \/ ReloadBaseMemory
    \/ \E files \in KnowledgeFiles : ReplaceKnowledgeFiles(files)
    \/ Tick

StoreSpec == StoreInit /\ [][StoreNext]_vars

\* ==================================================== manual range summary
\* The date_str "manual_range" of a range that has no day bucket.  Dates are
\* day numbers in this model, and "manual_range" is the date that is no day.
MANUAL_RANGE == -1

\* The record manual_summarize_range builds; add_summary_embedding keeps its
\* entry_type and overwrites created_by.
ManualSummaryRecord(text, date, count, start_index, end_index, embedding) ==
    [text |-> text,
     embedding |-> embedding,
     metadata |-> [entry_type |-> "manual_summary",
                   source_type |-> "personal",
                   range_start |-> start_index,
                   range_end |-> end_index,
                   conversation_date |-> date,
                   entries_count |-> count,
                   created_by |-> "summarizer"]]

\* max(daily_conversations.keys(), key=len of the bucket): the first of the
\* largest buckets, in the order the days were inserted.
LargestDay(daily) ==
    daily[CHOOSE i \in 1..Len(daily) :
            \A j \in 1..Len(daily) :
                /\ Len(daily[j].entries) <= Len(daily[i].entries)
                /\ j < i => Len(daily[j].entries) < Len(daily[i].entries)]

\* The ranges a caller asks for: the whole log, its first entries, its last
\* two, and a range that ends after the log.
Ranges(mem) == {<<0, Len(mem) - 1>>, <<0, MIN_DAY_ENTRIES - 1>>,
                <<Len(mem) - 2, Len(mem) - 1>>, <<Len(mem) - 1, Len(mem)>>}

\* manual_summarize_range(start_index, end_index), the whole call: the summary
\* is added to the store and no entry leaves the log.
ManualSummarizeRange(start_index, end_index, generated, embedded) ==
    /\ apc = "idle"
    /\ spc = "idle"
    /\ CallBegins("manual_summarize_range",
                  [start_index |-> start_index, end_index |-> end_index])
    /\ IF start_index < 0 \/ end_index >= Len(memory) \/ start_index >= end_index
       THEN /\ returned' = Some(FALSE)
            /\ UNCHANGED <<embeddings_data, embeddings_file>>
       ELSE LET entries == SubSeq(memory, start_index + 1, end_index + 1)
                daily == GroupEntriesByDay(entries, today)
                date_str == IF daily = <<>> THEN MANUAL_RANGE
                            ELSE LargestDay(daily).date
                summarized == IF daily = <<>> THEN entries
                              ELSE LargestDay(daily).entries
                text == IF FormatConversation(summarized) = <<>> THEN None
                        ELSE generated
            IN IF text = None
               THEN /\ returned' = Some(FALSE)
                    /\ UNCHANGED <<embeddings_data, embeddings_file>>
               ELSE /\ embeddings_data' =
                          IF embedded = None THEN embeddings_data
                          ELSE Append(embeddings_data,
                                   ManualSummaryRecord(text.value, date_str,
                                       Len(entries), start_index, end_index,
                                       embedded.value))
                    /\ embeddings_file' =
                          IF embedded = None THEN embeddings_file
                          ELSE SaveEmbeddings(embeddings_data', embeddings_file)
                    /\ returned' = Some(TRUE)
    /\ UNCHANGED <<today, memory, memory_file, base_embeddings, base_files,
                   export_file, interactions>>

\* The terminal loop with the manual summary among its commands, in a process
\* that is never killed.
ManualNext ==
    \/ (spc = "idle" /\ Archiver)
    \/ (apc = "idle" /\ Chat)
    \/ \E r \in Ranges(memory), generated \in SummaryOutcomes,
          embedded \in EmbeddingOutcomes :
           ManualSummarizeRange(r[1], r[2], generated, embedded)
    \/ Tick

ManualSpec == Init /\ [][ManualNext]_vars

\* ======================================================= the pure functions
\* The words of the texts that are classified: keywords of several categories
\* ("build" is one of crafting and of building), a word with a keyword inside
\* it ("wheat" holds "eat"), words with capital letters, and a word that is
\* no keyword.
Words ==
    {<<"b","u","i","l","d">>,
     <<"w","h","e","a","t">>,
     <<"M","i","n","e">>,
     <<"m","o","b">>,
     <<"h","o","u","s","e">>,
     <<"Z","O","M","B","I","E">>,
     <<"n","i","g","h","t">>,
     <<"h","e","l","l","o">>}

\* The texts of up to n words, the words separated by a space.
RECURSIVE Texts(_)
Texts(n) ==
    IF n = 0 THEN {<<>>}
    ELSE Texts(n - 1) \cup
         {IF t = <<>> THEN w ELSE t \o <<" ">> \o w :
              t \in Texts(n - 1), w \in Words}

\* The numbers of a vector.
Components == {0, 3, -4}

\* The vectors of up to n numbers.
Vectors(n) == UNION {[1..d -> Components] : d \in 0..n}

\* What an endpoint does with one request: the transport fails
\* (requests.exceptions.RequestException), or it answers with a body.
TransportError == [ok |-> FALSE]
Answer(body) == [ok |-> TRUE, body |-> body]

\* /api/embeddings: an error, an empty embedding, or a vector
EmbeddingAnswers == {TransportError, Answer(<<>>), Answer(<<3, 4>>)}
\* /api/generate: an error, an empty response, or a text
GenerateAnswers == {TransportError, Answer(""), Answer("summary")}

\* What the endpoint would do with the first, the second, ... request.
AnswerSeqs(answers) == [1..MaxAnswers -> answers]

\* OllamaEmbedder.embed_text: for attempt in range(self.max_retries); the
\* result and the number of requests made
RECURSIVE EmbedTextFrom(_, _)
EmbedTextFrom(answers, attempt) ==
    IF attempt >= max_retries THEN [value |-> <<>>, requests |-> attempt]
    ELSE LET response == answers[attempt + 1]
         IN IF response.ok /\ response.body # <<>>
            THEN [value |-> response.body, requests |-> attempt + 1]
            ELSE IF ~response.ok /\ attempt = max_retries - 1
            THEN [value |-> <<>>, requests |-> attempt + 1]
            ELSE EmbedTextFrom(answers, attempt + 1)

EmbedText(answers) == EmbedTextFrom(answers, 0)

\* MemoryManager._get_ollama_embedding: one requests.post; an exception
\* returns None, an answer returns its embedding
GetOllamaEmbedding(answers) ==
    LET response == answers[1]
    IN [value |-> IF response.ok THEN Some(response.body) ELSE None,
        requests |-> 1]

\* _call_ollama_for_summary: one requests.post; an exception or an empty
\* response returns None
CallOllamaForSummary(answers) ==
    LET response == answers[1]
    IN [value |-> IF response.ok /\ response.body # ""
                  THEN Some(response.body) ELSE None,
        requests |-> 1]

\* The records whose relevance is computed: of the category of the query, a
\* decision guide, of another category, or without metadata; with keywords
\* of the query, and at three section levels.
ScoredKeywords ==
    {<<>>,
     <<<<"c","r","a","f","t">>, <<"o","v","e","n">>>>,
     <<<<"c","r","a","f","t">>, <<"m","a","k","e">>, <<"s","m","e","l","t">>,
       <<"t","a","b","l","e">>>>}

ScoredItems ==
    {[text |-> "chunk", embedding |-> <<3, 4>>]}
        \cup {[text |-> "chunk", embedding |-> <<3, 4>>,
               metadata |-> [chunk_type |-> c, keywords |-> w, section_level |-> l]] :
                  c \in {"crafting", "decision_guide", "combat"},
                  w \in ScoredKeywords, l \in 1..3}
        \cup {[text |-> "chunk", embedding |-> <<3, 4>>,
               metadata |-> [keywords |-> w]] : w \in ScoredKeywords}

\* The queries: no keyword of a category; one keyword of eleven; three and
\* four keywords of the eight of crafting.
ScoredQueries ==
    {<<"h","e","l","l","o">>,
     <<"m","o","b">>,
     <<"C","r","a","f","t"," ","m","a","k","e"," ","s","m","e","l","t">>,
     <<"c","r","a","f","t"," ","m","a","k","e"," ","s","m","e","l","t"," ",
       "t","a","b","l","e">>}

\* Cosine similarities, in hundredths.
BaseSimilarities == {-100, 0, 30, 70, 95, 100}

\* The arguments of one call: a text, two vectors, the answers an endpoint
\* has in store, or a record with a query and a similarity.
FunctionInputs ==
    {[text |-> t] : t \in Texts(MaxWords)}
        \cup {[vec1 |-> a, vec2 |-> b] : a, b \in Vectors(MaxDim)}
        \cup {[embedding_answers |-> a] : a \in AnswerSeqs(EmbeddingAnswers)}
        \cup {[generate_answers |-> a] : a \in AnswerSeqs(GenerateAnswers)}
        \cup {[item |-> i, query |-> q, base_similarity |-> b] :
                  i \in ScoredItems, q \in ScoredQueries, b \in BaseSimilarities}

FunctionInit ==
    /\ today = PastDays
    /\ memory_file = <<>>
    /\ memory = LoadMemory(memory_file)
    /\ embeddings_file = <<>>
    /\ embeddings_data = LoadMemory(embeddings_file)
    /\ base_files = <<>>
    /\ base_embeddings = LoadBaseMemory(base_files)
    /\ apc = "idle"
    /\ daily_conversations = <<>>
    /\ summary = None
    /\ summaries_created = 0
    /\ entries_to_remove = 0
    /\ current_day_entries = <<>>
    /\ result = "none"
    /\ spc = "idle"
    /\ timestamp = None
    /\ interactions = 0
    /\ events = 0
    /\ cycle = NoCycle
    /\ query = <<>>
    /\ k = 0
    /\ include_base = TRUE
    /\ query_embedding = None
    /\ search_call = "none"
    /\ search_result = <<>>
    /\ export_file = None
    /\ call = "none"
    /\ args \in FunctionInputs
    /\ returned = None
    /\ before = <<>>
    /\ interaction_count = 0
    /\ last_summarization = 0
    /\ cpc = "idle"
    /\ rpc = "idle"
    /\ embeddings_to_load = <<>>

\* what the call of a pure function leaves alone
pureVars == <<today, memory, embeddings_data, memory_file, embeddings_file,
              interactions, events, base_embeddings, base_files, export_file,
              args, before, idleVars>>

\* _classify_query_intent(query)
ApplyClassifyQueryIntent ==
    /\ call = "none"
    /\ "text" \in DOMAIN args
    /\ call' = "_classify_query_intent"
    /\ returned' = Some(ClassifyQueryIntent(args.text))
    /\ UNCHANGED pureVars

\* _cosine_similarity(vec1, vec2)
ApplyCosineSimilarity ==
    /\ call = "none"
    /\ "vec1" \in DOMAIN args
    /\ call' = "_cosine_similarity"
    /\ returned' = Some(CosineSimilarity(args.vec1, args.vec2))
    /\ UNCHANGED pureVars

\* OllamaEmbedder.embed_text(text)
ApplyEmbedText ==
    /\ call = "none"
    /\ "embedding_answers" \in DOMAIN args
    /\ call' = "embed_text"
    /\ returned' = Some(EmbedText(args.embedding_answers))
    /\ UNCHANGED pureVars

\* MemoryManager._get_ollama_embedding(text)
ApplyGetOllamaEmbedding ==
    /\ call = "none"
    /\ "embedding_answers" \in DOMAIN args
    /\ call' = "_get_ollama_embedding"
    /\ returned' = Some(GetOllamaEmbedding(args.embedding_answers))
    /\ UNCHANGED pureVars

\* _call_ollama_for_summary(memory_manager, prompt)
ApplyCallOllamaForSummary ==
    /\ call = "none"
    /\ "generate_answers" \in DOMAIN args
    /\ call' = "_call_ollama_for_summary"
    /\ returned' = Some(CallOllamaForSummary(args.generate_answers))
    /\ UNCHANGED pureVars

\* _calculate_relevance_score(item, query, base_similarity)
ApplyCalculateRelevanceScore ==
    /\ call = "none"
    /\ "item" \in DOMAIN args
    /\ call' = "_calculate_relevance_score"
    /\ returned' = Some(CalculateRelevanceScore(args.item, args.query,
                                                args.base_similarity))
    /\ UNCHANGED pureVars

FunctionNext ==
    \/ ApplyClassifyQueryIntent
    \/ ApplyCalculateRelevanceScore
    \/ ApplyCosineSimilarity
    \/ ApplyEmbedText
    \/ ApplyGetOllamaEmbedding
    \/ ApplyCallOllamaForSummary

FunctionSpec == FunctionInit /\ [][FunctionNext]_vars

\* ===================================================== automatic archival
\* AICore: generate_response saves the interaction, counts it and calls
\* _check_auto_summarize; the GUI buttons call manual_summarize_past_days and
\* force_memory_cleanup.  Everything runs on the one loop of AICore, one
\* command at a time.
MIN_AUTO_ENTRIES == 4  \* _check_auto_summarize: len(past_day_entries) < 4

\* generate_response: save_interaction(context_to_save, reply) and
\* self.interaction_count += 1; _check_auto_summarize comes next.
GenerateResponse ==
    LET stamp == FormatTimestamp(today)
        content == LiveContent + 1
    IN /\ cpc = "idle"
       /\ apc = "idle"
       /\ spc = "idle"
       /\ interaction_count < MaxInteractions
       /\ interactions' = interactions + 1
       /\ memory' = memory \o <<Entry("user", content, stamp),
                                Entry("assistant", content, stamp)>>
       /\ memory_file' = SaveMemory(memory', memory_file)
       /\ interaction_count' = interaction_count + 1
       /\ cpc' = "check"
       /\ UNCHANGED <<reloadVars, searchVars, callVars, today, embeddings_data,
                      embeddings_file, apc, archLocals, result, spc, timestamp,
                      events, cycle, last_summarization>>

\* what a step of AICore outside summarize_memory leaves alone
coreIdle == <<reloadVars, searchVars, callVars, today, memory, embeddings_data, memory_file,
              embeddings_file, apc, archLocals, result, spc, timestamp,
              interactions, cycle, interaction_count, last_summarization>>

\* _check_auto_summarize up to the call of summarize_memory
CheckAutoSummarize ==
    /\ cpc = "check"
    /\ cpc' = IF /\ interaction_count - last_summarization >= auto_summarize_threshold
                 /\ ~(Len(GetPastDayEntries(memory, today)) < MIN_AUTO_ENTRIES)
              THEN "auto" ELSE "idle"
    /\ UNCHANGED <<coreIdle, events>>

\* manual_summarize_past_days up to the call of summarize_memory
ManualSummarizePastDays ==
    /\ cpc = "idle"
    /\ apc = "idle"
    /\ events < MaxEvents
    /\ events' = events + 1
    /\ LET available_days ==
               DatesOf(GroupEntriesByDay(GetPastDayEntries(memory, today), today))
       IN cpc' = IF available_days # {} THEN "manual" ELSE "idle"
    /\ UNCHANGED coreIdle

\* force_memory_cleanup up to the call of summarize_memory
ForceMemoryCleanup ==
    /\ cpc = "idle"
    /\ apc = "idle"
    /\ events < MaxEvents
    /\ events' = events + 1
    /\ cpc' = "force"
    /\ UNCHANGED coreIdle

\* summarize_memory, called by AICore
CoreSummarize ==
    /\ cpc \in {"auto", "manual", "force"}
    /\ \/ Collect
       \/ \E out \in SummaryOutcomes : Generate(out)
       \/ \E out \in EmbeddingOutcomes : Embed(out)
       \/ Finish
       \/ PruneAssign
       \/ PruneSave

\* summarize_memory has returned success to the caller, which goes on
Returns(caller, last) ==
    /\ cpc = caller
    /\ apc = "done"
    /\ apc' = "idle"
    /\ cpc' = "idle"
    /\ last_summarization' = last
    /\ daily_conversations' = <<>>
    /\ summary' = None
    /\ summaries_created' = 0
    /\ entries_to_remove' = 0
    /\ current_day_entries' = <<>>
    /\ result' = "none"
    /\ cycle' = NoCycle
    /\ UNCHANGED <<reloadVars, searchVars, callVars, today, memory,
                   embeddings_data, memory_file, embeddings_file, spc, timestamp,
                   interactions, events, interaction_count>>

\* _check_auto_summarize: if success: self.last_summarization = ...
CheckAutoSummarizeReturn ==
    Returns("auto", IF result = "True" THEN interaction_count
                    ELSE last_summarization)

\* manual_summarize_past_days: return True / return False
ManualSummarizePastDaysReturn == Returns("manual", last_summarization)

\* force_memory_cleanup: if success: self.last_summarization = ...
ForceMemoryCleanupReturn ==
    Returns("force", IF result = "True" THEN interaction_count
                     ELSE last_summarization)

AutoNext ==
    \/ GenerateResponse
    \/ CheckAutoSummarize
    \/ ManualSummarizePastDays
    \/ ForceMemoryCleanup
    \/ CoreSummarize
    \/ CheckAutoSummarizeReturn
    \/ ManualSummarizePastDaysReturn
    \/ ForceMemoryCleanupReturn
    \/ Tick

AutoSpec == Init /\ [][AutoNext]_vars

\* ======================================================= the cycle, alive
\* The process is never killed, and the thread that runs summarize_memory
\* is scheduled again and again; save_interaction runs beside it.
CycleNext == Archiver \/ Chat \/ Tick

\* every step of summarize_memory changes its position or the days left
cycleVars == <<apc, daily_conversations>>

CycleSpec == Init /\ [][CycleNext]_vars /\ WF_cycleVars(Archiver)

\* ================================================== the reload, step by step
\* reload_base_memory runs on the thread of the command that asked for it,
\* while the threads of other messages search the knowledge store.

\* _load_base_memory: self.base_embeddings = [] and the files are read
LoadBegin ==
    /\ rpc = "idle"
    /\ events < MaxEvents
    /\ events' = events + 1
    /\ call' = "reload_base_memory"
    /\ args' = <<>>
    /\ before' = Snapshot
    /\ returned' = None
    /\ base_embeddings' = <<>>
    /\ embeddings_to_load' = base_files
    /\ rpc' = "load"
    /\ UNCHANGED <<today, memory, embeddings_data, memory_file, embeddings_file,
                   apc, archLocals, result, spc, timestamp, interactions, cycle,
                   query, k, include_base, query_embedding, search_call,
                   search_result, base_files, export_file, coreVars>>

\* what a step of the loop over the items leaves alone
loadIdle == <<today, memory, embeddings_data, memory_file, embeddings_file, apc,
              archLocals, result, spc, timestamp, interactions, events, cycle,
              query, k, include_base, query_embedding, search_call,
              search_result, callVars, coreVars>>

\* for item in embeddings_to_load: a valid item is appended
LoadItem ==
    /\ rpc = "load"
    /\ embeddings_to_load # <<>>
    /\ base_embeddings' =
           base_embeddings \o LoadBaseMemory(<<Head(embeddings_to_load)>>)
    /\ embeddings_to_load' = Tail(embeddings_to_load)
    /\ UNCHANGED <<loadIdle, rpc>>

\* the loop is over and reload_base_memory returns
LoadReturn ==
    /\ rpc = "load"
    /\ embeddings_to_load = <<>>
    /\ rpc' = "idle"
    /\ UNCHANGED <<loadIdle, base_embeddings, embeddings_to_load>>

ReloadNext ==
    \/ LoadBegin
    \/ LoadItem
    \/ LoadReturn
    \/ (rpc = "idle" /\ \E files \in KnowledgeFiles : ReplaceKnowledgeFiles(files))
    \/ \E n \in {1, MaxK}, out \in QueryEmbeddingOutcomes :
           SearchBaseMemoryOnly(<<"m","o","b">>, n, out)
    \/ SearchReturn

ReloadSpec == StoreInit /\ [][ReloadNext]_vars

\* ======================================================= markdown chunking
\* MarkdownChunker (embed_base.py).  A line of a document is a header
\* (re.match(r'^(#{1,6})\s+(.+)', line): its level and its title) or a line
\* of text, of which only the length matters: 0 for a blank line, and no
\* other line begins or ends with white space.  A title is the sequence of
\* its characters; a text that is only measured is its length.
chunk_size == 1200      \* MarkdownChunker.__init__: chunk_size = 1200
min_chunk_size == 200   \* MarkdownChunker.__init__: min_chunk_size = 200

HeaderLine(level, title) == [header |-> TRUE, level |-> level, title |-> title]
TextLine(length) == [header |-> FALSE, length |-> length]

\* The lines of the documents: headers of three levels, a blank line, a
\* short line and a line of half the size of a chunk.
Lines ==
    {HeaderLine(1, <<"A">>), HeaderLine(2, <<"B">>), HeaderLine(3, <<"C">>),
     TextLine(0), TextLine(100), TextLine(600)}

\* text.split('\n') has at least one line.
Documents == UNION {[1..n -> Lines] : n \in 1..MaxLines}

\* len('\n'.join(parts).strip()): what is between the first and the last
\* part that is not empty, newlines included
StrippedJoinLength(parts) ==
    LET full == {n \in 1..Len(parts) : parts[n] > 0}
        RECURSIVE Sum(_, _)
        Sum(from, to) == IF from > to THEN 0 ELSE parts[from] + Sum(from + 1, to)
    IN IF full = {} THEN 0
       ELSE LET first == CHOOSE n \in full : \A m \in full : n <= m
                last == CHOOSE n \in full : \A m \in full : m <= n
            IN Sum(first, last) + (last - first)

\* _extract_sections: current_section is saved when it has a line or a title
SavedSection(current_section, sections) ==
    IF current_section.content # <<>> \/ current_section.title # <<>>
    THEN Append(sections,
                [level |-> current_section.level,
                 title |-> current_section.title,
                 content_text |-> StrippedJoinLength(current_section.content)])
    ELSE sections

RECURSIVE ExtractSectionsFrom(_, _, _, _)
ExtractSectionsFrom(lines, i, current_section, sections) ==
    IF i > Len(lines) THEN SavedSection(current_section, sections)
    ELSE IF lines[i].header
    THEN ExtractSectionsFrom(lines, i + 1,
             [level |-> lines[i].level, title |-> lines[i].title,
              content |-> <<>>],
             SavedSection(current_section, sections))
    ELSE ExtractSectionsFrom(lines, i + 1,
             [current_section EXCEPT !.content = Append(@, lines[i].length)],
             sections)

\* _extract_sections(text)
ExtractSections(lines) ==
    ExtractSectionsFrom(lines, 1,
        [level |-> 0, title |-> <<>>, content |-> <<>>], <<>>)

\* ' > '.join(context_parts) if context_parts else ''
RECURSIVE JoinTitles(_)
JoinTitles(context_parts) ==
    IF context_parts = <<>> THEN <<>>
    ELSE IF Len(context_parts) = 1 THEN context_parts[1]
    ELSE context_parts[1] \o <<" ", ">", " ">> \o JoinTitles(Tail(context_parts))

\* A walk that takes every earlier section above the section itself.
AllShallower(sections, index) ==
    JoinTitles([n \in 1..Cardinality({m \in 1..index :
                                        sections[m].level < sections[index + 1].level}) |->
        sections[CHOOSE m \in 1..index :
                    /\ sections[m].level < sections[index + 1].level
                    /\ Cardinality({p \in 1..m :
                           sections[p].level < sections[index + 1].level}) = n].title])

\* _get_section_context: for i in range(index - 1, -1, -1); i counts the
\* sections from 0 as the code does, sections[i + 1] is section i
RECURSIVE SectionContextFrom(_, _, _, _)
SectionContextFrom(sections, i, current_level, context_parts) ==
    IF i < 0 THEN context_parts
    ELSE LET prev_section == sections[i + 1]
         IN IF prev_section.level < current_level
            THEN IF prev_section.level <= 1
                 THEN <<prev_section.title>> \o context_parts
                 ELSE SectionContextFrom(sections, i - 1, prev_section.level,
                          <<prev_section.title>> \o context_parts)
            ELSE SectionContextFrom(sections, i - 1, current_level, context_parts)

GetSectionContext(sections, index) ==
    JoinTitles(SectionContextFrom(sections, index - 1,
                                  sections[index + 1].level, <<>>))

\* the header and the body of a section, as chunk_markdown puts them
SectionParts(section) ==
    (IF section.title # <<>>
     THEN <<section.level + 1 + Len(section.title)>> ELSE <<>>)
    \o (IF section.content_text > 0 THEN <<section.content_text>> ELSE <<>>)

\* len('\n'.join(parts))
JoinLength(parts) ==
    LET RECURSIVE Sum(_)
        Sum(n) == IF n = 0 THEN 0 ELSE parts[n] + Sum(n - 1)
    IN IF parts = <<>> THEN 0 ELSE Sum(Len(parts)) + Len(parts) - 1

\* _should_merge_sections(section1, section2)
ShouldMergeSections(section1, section2) ==
    \/ section1.content_text + section2.content_text <= chunk_size
    \/ /\ section1.level < section2.level
       /\ section2.content_text < min_chunk_size

\* An inner loop that passes over the sections that follow without taking
\* them into the chunk.
SkipRest(sections, section, j, chunk) == [chunk EXCEPT !.j = Len(sections)]

\* chunk_markdown: the inner loop, while j < len(sections) and
\* current_length < self.chunk_size; j counts from 0
RECURSIVE MergeFrom(_, _, _, _)
MergeFrom(sections, section, j, chunk) ==
    IF ~(j < Len(sections) /\ chunk.current_length < chunk_size) THEN chunk
    ELSE LET next_section == sections[j + 1]
             next_text == JoinLength(SectionParts(next_section))
             potential_length == chunk.current_length + 1 + next_text
         IN IF \/ potential_length <= chunk_size
               \/ ShouldMergeSections(section, next_section)
            THEN MergeFrom(sections, section, j + 1,
                     [chunk_parts |-> Append(chunk.chunk_parts, next_text),
                      chunk_sections |-> Append(chunk.chunk_sections, j),
                      current_length |-> potential_length,
                      j |-> j + 1])
            ELSE chunk

\* chunk_markdown: the outer loop, while i < len(sections); i counts from 0
RECURSIVE ChunkFrom(_, _, _)
ChunkFrom(sections, i, chunks) ==
    IF ~(i < Len(sections)) THEN chunks
    ELSE LET section == sections[i + 1]
             merged == MergeFrom(sections, section, i + 1,
                           [chunk_parts |-> SectionParts(section),
                            chunk_sections |-> <<i>>,
                            current_length |-> JoinLength(SectionParts(section)),
                            j |-> i + 1])
             char_count == StrippedJoinLength(merged.chunk_parts)
             chunk_data == [sections |-> merged.chunk_sections,
                            main_section_title |-> section.title,
                            section_level |-> section.level,
                            context_path |-> GetSectionContext(sections, i),
                            char_count |-> char_count]
         IN ChunkFrom(sections,
                      IF merged.j > i + 1 THEN merged.j ELSE i + 1,
                      IF char_count > 0 THEN Append(chunks, chunk_data) ELSE chunks)

\* chunk_markdown(text); sections is never empty, so that _basic_chunk is
\* not reached
ChunkMarkdown(lines) == ChunkFrom(ExtractSections(lines), 0, <<>>)

ChunkInit ==
    /\ today = PastDays
    /\ memory_file = <<>>
    /\ memory = LoadMemory(memory_file)
    /\ embeddings_file = <<>>
    /\ embeddings_data = LoadMemory(embeddings_file)
    /\ base_files = <<>>
    /\ base_embeddings = LoadBaseMemory(base_files)
    /\ apc = "idle"
    /\ daily_conversations = <<>>
    /\ summary = None
    /\ summaries_created = 0
    /\ entries_to_remove = 0
    /\ current_day_entries = <<>>
    /\ result = "none"
    /\ spc = "idle"
    /\ timestamp = None
    /\ interactions = 0
    /\ events = 0
    /\ cycle = NoCycle
    /\ query = <<>>
    /\ k = 0
    /\ include_base = TRUE
    /\ query_embedding = None
    /\ search_call = "none"
    /\ search_result = <<>>
    /\ export_file = None
    /\ call = "none"
    /\ args \in {[text |-> lines] : lines \in Documents}
    /\ returned = None
    /\ before = <<>>
    /\ interaction_count = 0
    /\ last_summarization = 0
    /\ cpc = "idle"
    /\ rpc = "idle"
    /\ embeddings_to_load = <<>>

\* chunk_markdown(text)
ApplyChunkMarkdown ==
    /\ call = "none"
    /\ call' = "chunk_markdown"
    /\ returned' = Some(ChunkMarkdown(args.text))
    /\ UNCHANGED pureVars

\* _get_section_context(sections, index) on the sections of the text
ApplyGetSectionContext(index) ==
    /\ call = "none"
    /\ index < Len(ExtractSections(args.text))
    /\ call' = "_get_section_context"
    /\ args' = [text |-> args.text, index |-> index]
    /\ returned' = Some(GetSectionContext(ExtractSections(args.text), index))
    /\ UNCHANGED <<today, memory, embeddings_data, memory_file, embeddings_file,
                   interactions, events, base_embeddings, base_files,
                   export_file, before, idleVars>>

ChunkNext ==
    \/ ApplyChunkMarkdown
    \/ \E index \in 0..(MaxLines - 1) : ApplyGetSectionContext(index)

ChunkSpec == ChunkInit /\ [][ChunkNext]_vars

\* ================================================================ claims
Days == 0..(PastDays + MaxEvents)
CountOn(mem, d) == Cardinality({i \in 1..Len(mem) : mem[i].timestamp[2] = d
                                   /\ mem[i].timestamp[1] \in ParseFormats})
EntriesOn(mem, d) == {e \in Range(mem) : e.timestamp[2] = d
                                   /\ e.timestamp[1] \in ParseFormats}
\* The records for day d that the running cycle added to the summary store.
AddedFor(d) ==
    Cardinality({i \in (Len(cycle.startEmbeddings) + 1)..Len(embeddings_data) :
                    embeddings_data[i].metadata.conversation_date = d})
CycleDone == apc = "done" /\ cycle.running

\* C1: the raw entries of a past date D leave the conversation log only when
\* a SummaryRecord for D is in the summary store; a date whose embedding call
\* failed keeps its entries.
C1_PrunedOnlyAfterInsert ==
    (apc \in {"prune_save", "done"} /\ cycle.running) =>
        \A d \in Days :
            (HasRaw(cycle.startMemory, d) /\ ~HasRaw(memory, d))
                => HasSummary(embeddings_data, d)

\* C2: after a completed cycle, every past date that had raw entries before
\* the cycle has raw entries or a SummaryRecord, and not both.
C2_DayExclusivity ==
    CycleDone =>
        \A d \in Days :
            (d < cycle.startToday /\ HasRaw(cycle.startMemory, d))
                => (HasRaw(memory, d) # HasSummary(embeddings_data, d))

\* C3: a day whose text generation failed keeps its raw entries after the
\* cycle, and every other eligible day of the cycle is still committed
\* (stated for the cycles in which every embedding call succeeds).
C3_FailedDaySkipped ==
    (CycleDone /\ cycle.embFailed = {}) =>
        /\ \A d \in cycle.genFailed : EntriesOn(cycle.startMemory, d) \subseteq Range(memory)
        /\ (cycle.genFailed # {} =>
               \A d \in cycle.candidates \ (cycle.genFailed \cup cycle.embFailed) :
                   AddedFor(d) = 1)

\* C4: a past date with fewer than MIN_DAY_ENTRIES entries keeps all of them
\* through a cycle and gets no SummaryRecord (stated for the cycles in which
\* every generation and embedding call succeeds).
C4_BelowThresholdUntouched ==
    (CycleDone /\ cycle.genFailed = {} /\ cycle.embFailed = {}) =>
        \A d \in Days :
            (d < cycle.startToday /\ CountOn(cycle.startMemory, d) \in 1..(MIN_DAY_ENTRIES - 1))
                => /\ EntriesOn(cycle.startMemory, d) \subseteq Range(memory)
                   /\ AddedFor(d) = 0

C6_CurrentDayNeverArchived ==
    (/\ apc \in {"prune_save", "done"} /\ cycle.running
     /\ cycle.genFailed = {} /\ cycle.embFailed = {}) =>
        \A e \in Range(cycle.startMemory) :
            EntryDate(e, cycle.startToday) >= cycle.startToday
                => /\ e \in Range(memory)
                   /\ AddedFor(EntryDate(e, cycle.startToday)) = 0

\* C7: a past date with at least MIN_DAY_ENTRIES entries whose generation and
\* embedding calls succeed gets exactly one SummaryRecord from the run and has
\* no raw entry left in the log.
C7_EligibleDayArchived ==
    CycleDone =>
        \A d \in Days :
            (/\ d < cycle.startToday
             /\ CountOn(cycle.startMemory, d) >= MIN_DAY_ENTRIES
             /\ d \notin cycle.genFailed \cup cycle.embFailed)
                => AddedFor(d) = 1 /\ ~HasRaw(memory, d)

C7_Witness ==
    /\ CycleDone
    /\ \E d \in Days :
          /\ d < cycle.startToday
          /\ CountOn(cycle.startMemory, d) >= MIN_DAY_ENTRIES
          /\ d \notin cycle.genFailed \cup cycle.embFailed
          /\ AddedFor(d) = 1

\* C8: when no past date has MIN_DAY_ENTRIES entries, a run of
\* summarize_memory ends with the log, the summary store and both files as
\* they were.
NoEligibleDay ==
    \A d \in Days :
        d < cycle.startToday => CountOn(cycle.startMemory, d) < MIN_DAY_ENTRIES
C8_NoCandidateNoOp ==
    (cycle.running /\ apc # "crashed" /\ NoEligibleDay) =>
        /\ apc = "done"
        /\ memory = cycle.startMemory
        /\ embeddings_data = cycle.startEmbeddings
        /\ memory_file = cycle.startMemoryFile
        /\ embeddings_file = cycle.startEmbeddingsFile

C8_Witness ==
    /\ CycleDone /\ NoEligibleDay
    /\ \E d \in Days : d < cycle.startToday /\ HasRaw(cycle.startMemory, d)

\* C9: once save_interaction and the archival cycle have both completed, the
\* user and assistant entries the call appended, dated the current day, are in
\* the log in memory and in memory.json (stated for the cycles in which every
\* generation and embedding call succeeds).
AppendedEntries == {Entry("user", LiveContent, timestamp.value),
                    Entry("assistant", LiveContent, timestamp.value)}
C9_NoLostUpdate ==
    (/\ spc = "done" /\ apc \in {"idle", "done"}
     /\ cycle.genFailed = {} /\ cycle.embFailed = {}
     /\ timestamp = Some(FormatTimestamp(today))) =>
        /\ AppendedEntries \subseteq Range(memory)
        /\ AppendedEntries \subseteq Range(memory_file)

\* The score a search ranks by.
RankingScore(r) ==
    IF search_call = "memory_manipulation.search_embeddings"
    THEN r.relevance_score ELSE r.similarity

\* C10: for every query and every k >= 0, search_embeddings (of either
\* memory manager) returns at most k results, every returned score is at
\* least 0.3, and the results are in descending order of the score the search
\* ranks by; search_base_memory_only also returns at most k results in
\* descending order.
C10_SearchContract ==
    (search_call # "none" /\ k >= 0) =>
        /\ Len(search_result) <= k
        /\ \A i, j \in 1..Len(search_result) :
             i < j => RankingScore(search_result[i]) >= RankingScore(search_result[j])
        /\ search_call # "memory_manager.search_base_memory_only" =>
             \A i \in 1..Len(search_result) : RankingScore(search_result[i]) >= 30

\* A search that ranked by relevance, had more records than k to choose from,
\* moved a later record to the front and filled the k places.
C10_Witness ==
    /\ search_call = "memory_manipulation.search_embeddings"
    /\ k >= 2
    /\ Len(search_result) = k
    /\ Len(AllEmbeddings(include_base)) > k
    /\ search_result[1].text # AllEmbeddings(include_base)[1].text
    /\ RankingScore(search_result[1]) > RankingScore(search_result[2])

\* C11: when embedding the query text fails, search_embeddings reports an
\* outcome that its caller can tell from a search that found nothing: what it
\* returns is not the empty list a search without matches returns.
C11_FailureDistinguishable ==
    (/\ search_call \in {"memory_manager.search_embeddings",
                         "memory_manipulation.search_embeddings"}
     /\ AllEmbeddings(include_base) # <<>>
     /\ query_embedding = None) => search_result # <<>>

\* The lengths of the vectors an index holds.
Dimensions(data, base) ==
    {Len(Get((data \o base)[i], "embedding", <<>>)) : i \in 1..Len(data \o base)}

\* C12: all embedding vectors of the index (summary store and knowledge
\* store) have one dimensionality, and an insert, a load or an import of a
\* record whose vector has another length is rejected and leaves the index
\* as it was: a call that finds the vectors of one length leaves them so.
C12_OneDimensionality ==
    (/\ call \in {"add_summary_embedding", "import_memory", "reload_base_memory"}
     /\ Cardinality(Dimensions(before.embeddings_data, before.base_embeddings)) <= 1)
        => Cardinality(Dimensions(embeddings_data, base_embeddings)) <= 1

\* The store holds what the exported file holds, with the statistics of the
\* moment of the export.
EqualsExport(export_data) ==
    /\ memory = export_data.chat_entries
    /\ embeddings_data = export_data.daily_summary_embeddings
    /\ GetMemoryStats(memory, embeddings_data, base_embeddings, today) =
         [current_day_entries |-> export_data.current_day_entries,
          past_day_unsummarized_entries |-> export_data.past_day_entries,
          total_memory_entries |-> Len(export_data.chat_entries),
          daily_summary_embeddings_count |->
              Len(export_data.daily_summary_embeddings),
          base_embeddings_count |-> export_data.base_embeddings_count]

\* An import of the exported file, on the day of the export, into the store
\* that exported it or into an empty store.
RoundTrip ==
    /\ call = "import_memory"
    /\ args.file # None
    /\ args.file = export_file
    /\ today = export_file.value.export_timestamp[2]
    /\ \/ /\ before.memory = export_file.value.chat_entries
          /\ before.embeddings_data = export_file.value.daily_summary_embeddings
       \/ /\ before.memory = <<>>
          /\ before.embeddings_data = <<>>

\* C13: export_memory followed by import_memory of the exported file, into
\* the exporting store or into an empty store, yields a store whose
\* conversation log, summary store and statistics equal those at the export.
C13_ExportImportRoundTrip == RoundTrip => EqualsExport(export_file.value)

\* C14: when persisting the log fails during save_interaction, the two
\* entries are still appended in memory and the caller of save_interaction
\* is told of the failure: it does not get what a call that persisted the
\* log returns (None, without an exception).
C14_SaveFailureSurfaced ==
    (call = "save_interaction" /\ ~args.write_ok) =>
        /\ Len(memory) = Len(before.memory) + 2
        /\ SubSeq(memory, 1, Len(before.memory)) = before.memory
        /\ returned # None

\* The entries of a log whose timestamp none of the formats parses.
Unparseable(mem) == {e \in Range(mem) : e.timestamp[1] \notin ParseFormats}

\* C15: a persisted entry whose timestamp cannot be parsed is dropped when
\* the log is loaded or bucketed, while the other entries of the file are
\* kept: it is in no day bucket (neither the current day's nor a past day's).
C15_UnparseableDropped ==
    /\ call = "none" =>
         Range(memory_file) \ Unparseable(memory_file) \subseteq Range(memory)
    /\ \A e \in Unparseable(memory_file) :
         /\ e \notin Range(GetCurrentDayEntries(LoadMemory(memory_file), today))
         /\ e \notin Range(GetPastDayEntries(LoadMemory(memory_file), today))

\* C16: clear_memory empties the conversation log and the summary store and
\* leaves the knowledge store as it was: base_embeddings in memory and the
\* knowledge-store files are those of before the call.
C16_ClearKeepsKnowledge ==
    call = "clear_memory" =>
        /\ memory = <<>>
        /\ embeddings_data = <<>>
        /\ base_embeddings = before.base_embeddings
        /\ base_files = before.base_files

\* clear_memory has returned in a store that held entries, summaries and
\* knowledge records.
C16_Witness ==
    /\ call = "clear_memory"
    /\ before.memory # <<>>
    /\ before.embeddings_data # <<>>
    /\ before.base_embeddings # <<>>
    /\ memory_file = <<>>
    /\ embeddings_file = <<>>

\* The entries of a log that are dated today or later, and the others.
CurrentOf(mem, now) == SelectSeq(mem, LAMBDA e : EntryDate(e, now) >= now)
PastOf(mem, now) == SelectSeq(mem, LAMBDA e : EntryDate(e, now) < now)

\* C17: pruning is idempotent and spares the current day: a call of
\* remove_summarized_past_day_entries keeps every current-day entry, changes
\* nothing in the log when no entry is of a past day, returns without an
\* error, and leaves a log that a second application would not change.
C17_PruneIdempotent ==
    call = "remove_summarized_past_day_entries" =>
        /\ CurrentOf(memory, before.today) = CurrentOf(before.memory, before.today)
        /\ PastOf(before.memory, before.today) = <<>> => memory = before.memory
        /\ args.num_entries_to_remove > 0 =>
             /\ PastOf(memory, before.today) = <<>>
             /\ GetCurrentDayEntries(memory, before.today) = memory
        /\ returned = None

\* A prune that removed the entries of a past day from a log that also held
\* entries of the current day.
C17_Witness ==
    /\ call = "remove_summarized_past_day_entries"
    /\ args.num_entries_to_remove > 0
    /\ PastOf(before.memory, before.today) # <<>>
    /\ CurrentOf(before.memory, before.today) # <<>>
    /\ memory # before.memory
    /\ memory # <<>>

\* C18: in a process that is never killed, after any sequence of archival
\* cycles, manual range summaries and appends, no two records of the summary
\* store carry the same conversation day.
C18_OneRecordPerDay ==
    \A i, j \in 1..Len(embeddings_data) :
        (i < j /\ embeddings_data[i].metadata.conversation_date # MANUAL_RANGE)
            => embeddings_data[i].metadata.conversation_date
                   # embeddings_data[j].metadata.conversation_date

\* The number of keywords of the i-th category that occur in the lowercased
\* text, and the categories with at least one.
KeywordsFound(text, i) ==
    Cardinality({n \in 1..Len(minecraft_context_patterns[i].keywords) :
                   Contains(ToLower(text), minecraft_context_patterns[i].keywords[n])})
Matching(text) ==
    {i \in 1..Len(minecraft_context_patterns) : KeywordsFound(text, i) > 0}

\* C19: _classify_query_intent returns a category whose confidence
\* (keywords found / keywords of the category) is the highest among the
\* categories with a keyword in the lowercased text, together with that
\* confidence, which is above 0 and at most 1; when no keyword of any
\* category occurs it returns 'general' with confidence 0.
C19_HighestConfidence ==
    call = "_classify_query_intent" =>
        LET r == returned.value
            hits == Matching(args.text)
        IN IF hits = {}
           THEN r.category = "general" /\ r.matches = 0
           ELSE /\ 0 < r.matches
                /\ r.matches <= r.size
                /\ \E i \in hits :
                    /\ r.category = minecraft_context_patterns[i].category
                    /\ r.matches = KeywordsFound(args.text, i)
                    /\ r.size = Len(minecraft_context_patterns[i].keywords)
                    /\ \A j \in hits :
                           KeywordsFound(args.text, j) * r.size
                               <= r.matches * Len(minecraft_context_patterns[j].keywords)

\* A text with one keyword of a large category before one of a smaller
\* category has been classified as the smaller category.
C19_Witness ==
    /\ call = "_classify_query_intent"
    /\ args.text = <<"m","o","b"," ","h","o","u","s","e">>
    /\ Cardinality(Matching(args.text)) = 2
    /\ returned.value.category = "building"

\* The zero vectors: every number is 0 (the vector without numbers is one).
IsZeroVector(vec) == \A i \in 1..Len(vec) : vec[i] = 0

\* C20: _cosine_similarity returns 0 whenever one of its arguments is a zero
\* vector, whatever the other argument is, one of another length included;
\* the call returns a number and raises nothing.
C20_ZeroVectorIsZero ==
    (call = "_cosine_similarity"
        /\ (IsZeroVector(args.vec1) \/ IsZeroVector(args.vec2)))
        => returned = Some(0)

\* The similarity of a zero vector and a vector of another length, not zero,
\* has been computed.
C20_Witness ==
    /\ call = "_cosine_similarity"
    /\ args.vec1 = <<0, 0>>
    /\ args.vec2 = <<3>>
    /\ returned = Some(0)

\* C21: after a saved interaction an automatic cycle is started exactly when
\* interaction_count - last_summarization >= auto_summarize_threshold and at
\* least 4 past-day entries exist; last_summarization moves only when a
\* cycle has reported success, and then to interaction_count; and every
\* cycle that reports success moves it, so that the threshold is measured
\* from the last successful cycle.
C21_ThresholdFromLastSuccess ==
    [][/\ (cpc = "check" /\ cpc' # "check") =>
            (cpc' = "auto" <=>
                /\ interaction_count - last_summarization >= auto_summarize_threshold
                /\ Len(PastOf(memory, today)) >= 4)
       /\ last_summarization' # last_summarization =>
            (apc = "done" /\ result = "True"
                /\ last_summarization' = interaction_count)
       /\ (apc = "done" /\ apc' = "idle" /\ result = "True") =>
            last_summarization' = interaction_count]_vars

\* C22: every run of summarize_memory ends: whatever the text-generation and
\* the embedding endpoint answer for each day, the run reaches its return
\* with True or False and the pipeline is idle again.
C22_CycleTerminates ==
    /\ [](apc = "done" => result \in {"True", "False"})
    /\ (apc # "idle") ~> (apc = "done")
    /\ (apc = "done") ~> (apc = "idle")

\* A run has reached its return after the generation failed for one day and
\* the embedding for another.
C22_Witness ==
    /\ apc = "done"
    /\ cycle.genFailed # {}
    /\ cycle.embFailed # {}
    /\ result \in {"True", "False"}

\* The embedding requests that fail: no answer, or an empty embedding.
Fails(response) == ~response.ok \/ response.body = <<>>

\* C23: a call to an endpoint is retried up to a small fixed bound before it
\* soft-fails.  embed_text makes at most max_retries requests and returns the
\* first embedding that is not empty, or the empty list; and
\* _get_ollama_embedding and _call_ollama_for_summary, on the archival and
\* search paths, answer a transport error on the first request with a second
\* request before they give up.
C23_RetriedBeforeSoftFail ==
    /\ call = "embed_text" =>
        LET r == returned.value
            answers == args.embedding_answers
        IN /\ r.requests <= max_retries
           /\ r.value # <<>> =>
                /\ r.value = answers[r.requests].body
                /\ \A n \in 1..(r.requests - 1) : Fails(answers[n])
           /\ r.value = <<>> =>
                \A n \in 1..r.requests : Fails(answers[n])
    /\ call = "_get_ollama_embedding" =>
        (~args.embedding_answers[1].ok => returned.value.requests > 1)
    /\ call = "_call_ollama_for_summary" =>
        (~args.generate_answers[1].ok => returned.value.requests > 1)

\* The texts of the records a search returned, and those of a knowledge set.
Observed == {search_result[i].text : i \in 1..Len(search_result)}
TextsOf(base) == {base[i].text : i \in 1..Len(base)}

\* C24: reload_base_memory replaces the knowledge set at once: a search that
\* runs beside a reload (asking for every record) returns the records of the
\* whole set before the reload or of the whole set after it, never of an
\* empty or half-loaded set; and when the reload has returned, the set is
\* exactly the valid records of the files.
C24_AtomicReload ==
    /\ (/\ call = "reload_base_memory"
        /\ search_call = "memory_manager.search_base_memory_only"
        /\ query_embedding # None
        /\ k = MaxK) =>
            Observed \in {TextsOf(before.base_embeddings),
                          TextsOf(LoadBaseMemory(base_files))}
    /\ (call = "reload_base_memory" /\ rpc = "idle") =>
            base_embeddings = LoadBaseMemory(base_files)

\* The three boosts of a record for a query, in hundredths.
CategoryBoost(item, text) ==
    LET intent == ClassifyQueryIntent(text)
        chunk_type == Get(Get(item, "metadata", <<>>), "chunk_type", "general_guide")
        confident == intent.category # "general"
                        /\ 10 * intent.matches > 3 * intent.size
    IN IF confident /\ chunk_type = intent.category THEN 20
       ELSE IF confident /\ chunk_type = "decision_guide" THEN 10
       ELSE 0
KeywordBoost(item, text) ==
    LET keywords == Get(Get(item, "metadata", <<>>), "keywords", <<>>)
        found == {w \in Split(ToLower(text)) :
                     \E n \in 1..Len(keywords) : keywords[n] = w}
    IN IF 5 * Cardinality(found) < 15 THEN 5 * Cardinality(found) ELSE 15
LevelBoost(item) ==
    IF Get(Get(item, "metadata", <<>>), "section_level", 1) <= 2 THEN 5 ELSE 0

\* C25: for a base similarity in [-1, 1] _calculate_relevance_score returns
\* min(1.0, base + boost): the +0.2 of the category is added only when the
\* classified category is the record's chunk_type and the confidence is above
\* 0.3 (a decision guide gets +0.1 instead), the keyword boost is
\* min(0.15, 0.05 x query words among the record's keywords), and +0.05 is
\* added for section_level <= 2; the result is never above 1.0 and never
\* below base, and the boost is never below 0 nor above 0.40.
C25_BoundedBoost ==
    call = "_calculate_relevance_score" =>
        LET score == returned.value
            base == args.base_similarity
            boost == CategoryBoost(args.item, args.query)
                        + KeywordBoost(args.item, args.query)
                        + LevelBoost(args.item)
        IN /\ score = (IF base + boost < 100 THEN base + boost ELSE 100)
           /\ 0 <= boost /\ boost <= 40
           /\ base <= score /\ score <= 100
           /\ score - base <= 40

\* A record of the query's category with four of its words as keywords, at
\* section level 1 and similarity 0.95: the three boosts at their largest,
\* and the score at the cap.
C25_Witness ==
    /\ call = "_calculate_relevance_score"
    /\ args.base_similarity = 95
    /\ CategoryBoost(args.item, args.query) = 20
    /\ KeywordBoost(args.item, args.query) = 15
    /\ LevelBoost(args.item) = 5
    /\ Cardinality(Range(args.item.metadata.keywords)
                       \cap Split(ToLower(args.query))) = 4
    /\ returned = Some(100)

\* C26: every chunk that chunk_markdown makes of two or more sections is at
\* most chunk_size long, unless the last section merged into it is a
\* subsection, deeper than the section the chunk starts with, whose body is
\* shorter than min_chunk_size.
C26_MergedChunkWithinSize ==
    call = "chunk_markdown" =>
        LET sections == ExtractSections(args.text)
        IN \A n \in 1..Len(returned.value) :
              LET chunk == returned.value[n]
                  first == sections[chunk.sections[1] + 1]
                  last == sections[chunk.sections[Len(chunk.sections)] + 1]
              IN Len(chunk.sections) >= 2 =>
                    \/ chunk.char_count <= chunk_size
                    \/ /\ first.level < last.level
                       /\ last.content_text < min_chunk_size

\* The section nearest before section index (counted from 0) whose level is
\* below level, as a set of at most one index.
NearestShallower(sections, index, level) ==
    LET shallower == {m \in 0..(index - 1) : sections[m + 1].level < level}
    IN {m \in shallower : \A p \in shallower : p <= m}

\* The titles of the chain of nearest shallower sections, the shallowest
\* first: every link, or no link beyond the first one of level floor or less.
RECURSIVE ShallowerChain(_, _, _, _)
ShallowerChain(sections, index, level, floor) ==
    LET nearest == NearestShallower(sections, index, level)
    IN IF nearest = {} THEN <<>>
       ELSE LET m == CHOOSE p \in nearest : TRUE
            IN (IF sections[m + 1].level <= floor THEN <<>>
                ELSE ShallowerChain(sections, m, sections[m + 1].level, floor))
               \o <<sections[m + 1].title>>

\* C27 as stated: _get_section_context returns the titles of the whole chain
\* of nearest strictly shallower sections before the section, joined from
\* the shallowest to the deepest.
C27_WholeChain ==
    call = "_get_section_context" =>
        LET sections == ExtractSections(args.text)
        IN returned.value =
              JoinTitles(ShallowerChain(sections, args.index,
                                        sections[args.index + 1].level, -1))

\* C27: _get_section_context returns the titles of the chain of nearest
\* strictly shallower sections before the section, joined from the
\* shallowest to the deepest, the chain ending with the first section of
\* level 1 or less that it takes; the result is empty when there is none.
C27_ChainToMainSection ==
    call = "_get_section_context" =>
        LET sections == ExtractSections(args.text)
            chain == ShallowerChain(sections, args.index,
                                    sections[args.index + 1].level, 1)
        IN /\ returned.value = JoinTitles(chain)
           /\ NearestShallower(sections, args.index,
                               sections[args.index + 1].level) = {}
                 => returned.value = <<>>

\* a section under two headings, with a preamble that the chain stops short of
C27_Witness ==
    /\ call = "_get_section_context"
    /\ LET sections == ExtractSections(args.text)
           level == sections[args.index + 1].level
       IN /\ Len(ShallowerChain(sections, args.index, level, 1)) = 2
          /\ Len(ShallowerChain(sections, args.index, level, -1)) = 3
          /\ returned.value = <<"A", " ", ">", " ", "B">>

\* The section indices of the chunks, one after the other.
RECURSIVE ChunkedSections(_)
ChunkedSections(chunks) ==
    IF chunks = <<>> THEN <<>>
    ELSE Head(chunks).sections \o ChunkedSections(Tail(chunks))

\* C30: chunk_markdown returns for every document, and the section indices
\* of the chunks it returns are runs of consecutive indices, in increasing
\* order from chunk to chunk, hence disjoint, and between them hold every
\* section of the document that has a title or a body.
C30_ChunksPartitionSections ==
    call = "chunk_markdown" =>
        LET sections == ExtractSections(args.text)
            chunks == returned.value
            all == ChunkedSections(chunks)
        IN /\ returned.some
           /\ \A n \in 1..Len(chunks) :
                 /\ chunks[n].sections # <<>>
                 /\ \A p \in 1..Len(chunks[n].sections) :
                       chunks[n].sections[p] = chunks[n].sections[1] + p - 1
           /\ \A n \in 1..(Len(all) - 1) : all[n] < all[n + 1]
           /\ \A n \in 1..Len(all) : all[n] \in 0..(Len(sections) - 1)
           /\ \A i \in 0..(Len(sections) - 1) :
                 sections[i + 1].title # <<>> \/ sections[i + 1].content_text > 0
                    => \E n \in 1..Len(all) : all[n] = i

\* two sections merged into one chunk and a third in a chunk of its own
C30_Witness ==
    /\ call = "chunk_markdown"
    /\ Len(ExtractSections(args.text)) = 3
    /\ Len(returned.value) = 2
    /\ returned.value[1].sections = <<0, 1>>
    /\ returned.value[2].sections = <<2>>

RECURSIVE Subsequence(_, _, _)
Subsequence(seq, S, n) ==
    IF n > Len(seq) THEN <<>>
    ELSE (IF n \in S THEN <<seq[n]>> ELSE <<>>) \o Subsequence(seq, S, n + 1)

\* C29: the entries of the log are split between get_current_day_entries and
\* get_past_day_entries_for_summarization, every entry in exactly one of the
\* two and each of the two in the order of the log, and in get_memory_stats
\* total_memory_entries is the sum of current_day_entries and
\* past_day_unsummarized_entries.
C29_DayPartition ==
    LET stats == GetMemoryStats(memory, embeddings_data, base_embeddings, today)
    IN /\ \E S \in SUBSET (1..Len(memory)) :
             /\ GetCurrentDayEntries(memory, today) = Subsequence(memory, S, 1)
             /\ GetPastDayEntries(memory, today) =
                   Subsequence(memory, (1..Len(memory)) \ S, 1)
       /\ stats.total_memory_entries =
             stats.current_day_entries + stats.past_day_unsummarized_entries

\* a log in which an entry of today stands before entries of a past day
C29_Witness ==
    /\ \E i, j \in 1..Len(memory) :
          /\ i < j
          /\ EntryDate(memory[i], today) >= today
          /\ EntryDate(memory[j], today) < today
    /\ GetMemoryStats(memory, embeddings_data, base_embeddings, today).current_day_entries > 0
    /\ GetMemoryStats(memory, embeddings_data, base_embeddings, today).past_day_unsummarized_entries > 0

====
